---- MODULE Spec2Model ----
(***************************************************************************)
(* A model of the download discovery and monitoring subsystem of the NASA  *)
(* Solar Image Downloader: ImageFetcher (rate limit, retry, backoff),      *)
(* StorageOrganizer, DirectoryScraper filtering and task creation,         *)
(* DownloadManager.download_and_save and MonitoringLoop.                   *)
(*                                                                         *)
(* Time is counted in whole seconds.  A file name                          *)
(* YYYYMMDD_HHMMSS_<res>_<filter>.jpg is the record [d |-> day, t |-> seq] *)
(* of its embedded date and time sequence, with the fields res and flt     *)
(* where the resolution and the filter matter; a day is a day number, and  *)
(* the day number 0 stands for eight digits that are no calendar date      *)
(* (20241399).  A path base/YYYY/MM/DD/name is the pair <<day, name>>.     *)
(***************************************************************************)
EXTENDS Integers, Sequences, FiniteSets, TLC

\* ---------------------------------------------------------------- bounds
MaxRetries == 8     \* largest max_retries an ImageFetcher is constructed with
MaxDelay == 2       \* largest rate_limit_delay, in seconds
MaxReqTime == 1     \* longest time one HTTP request takes, in seconds
MaxCalls == 2       \* fetcher calls made in one behaviour
MaxBytes == 1       \* largest response body / file size
NumDays == 2        \* days whose directory listings are scraped
MaxDMCalls == 2     \* download_and_save calls made in one behaviour
MaxList == 2        \* longest list of discovered (date, filename) tuples
MaxRange == 2       \* largest monitoring_range_days
MaxChecks == 2      \* monitoring cycles begun in one behaviour
MaxStarts == 2      \* start_monitoring calls that start a loop in one behaviour
MaxNew == 1         \* images of the days in range that storage lacks at the start
MaxMissing == 2     \* the same, where the order of a cycle's downloads is studied
MaxFiles == 3       \* files under base_data_dir when listing and cleanup are studied
MaxTod == 2         \* times of day of the datetimes given to construct_url
MaxItems == 2       \* anchors and text runs naming a file on one directory page

\* ------------------------------------------------------ program constants
CheckInterval == 5  \* check_interval_minutes, the constructor's default
BackoffCap == 60    \* _exponential_backoff: min(2 ** attempt, 60)

VARIABLES
    \* ImageFetcher
    rate_limit_delay,   \* self.rate_limit_delay
    max_retries,        \* self.max_retries
    since_last,         \* time.time() - self.last_request_time, counted up to MaxDelay
    since_req,          \* time since the latest HTTP request was issued, up to MaxDelay
    last_gap,           \* time between the latest two HTTP requests, up to MaxDelay
    nreq,               \* HTTP requests issued so far, counted up to 2
    fpc,                \* where the fetcher's caller is: "idle", "loop", "ret"
    fop,                \* the method running or last run
    attempt,            \* download_image's loop variable
    fres,               \* the value the last call returned
    gets,               \* GET requests issued by the current download_image call
    sleeps,             \* backoff sleeps of the current download_image call, in order
    only404,            \* every response of the current call so far was a 404
    onlyTransient,      \* every response of the current call so far was transient
    lastError,          \* error_msg of the latest failed attempt of the current call
    calls,              \* fetcher calls begun
    last_resp,          \* ghost: the answer to the latest GET of the current call
    \* StorageOrganizer
    disk,               \* the files under base_data_dir: path -> size in bytes
    \* DownloadManager
    download_count,     \* self.download_count
    failed_tasks,       \* self.failed_tasks
    dpc,                \* per thread: where its download_and_save call is
    dtask,              \* per thread: the DownloadTask of its call
    ddata,              \* per thread: len(image_data) of its call
    dfetches,           \* per thread: download_image calls made by its current call
    logged,             \* ghost: whether the calls of this behaviour are logged
    fetchCount,         \* ghost, per (filename, date): download_image calls for it
    writeCount,         \* ghost, per path: save_image writes to it
    hist,               \* ghost: the first MaxDMCalls calls that returned, in order
    dcalls,             \* download_and_save calls begun, counted up to MaxDMCalls
    \* a pass of a download script
    available_images,   \* the discovered (date, filename) tuples
    new_images,         \* filter_new_images(available_images, storage)
    tasks,              \* create_download_tasks(new_images, storage)
    disk_before,        \* the disk when filter_new_images was called
    ppc,                \* where the pass is: "scraped", "filtered", "tasks"
    successful,         \* the download_and_save calls of the pass that returned True
    failed,             \* the download_and_save calls of the pass that returned False
    \* MonitoringLoop
    is_running,             \* self.is_running
    monitoring_range_days,  \* self.monitoring_range_days
    total_checks,           \* self.total_checks
    checks_left,            \* ghost: the cycles that may still begin in this behaviour
    new_images_found,       \* self.new_images_found
    last_check_time,        \* self.last_check_time
    monitoring_thread,      \* self.monitoring_thread
    jobs,                   \* the jobs of the schedule module's default scheduler
    other_jobs,             \* the jobs of the default scheduler that others registered
    events,                 \* ghost, per thread: what its latest check did, in order, if logged
    due,                    \* the jobs whose next run time has come
    starts,                 \* start_monitoring calls that started the loop
    mpc,                    \* the main thread: "idle", or "joining" in stop_monitoring
    spc,                    \* per scheduler thread: "off", "poll", "pending", "job"
    cpc,                    \* per thread: where its _check_for_new_images call is
    cyc,                    \* per thread: the locals of its _check_for_new_images call
    c_out,                  \* per thread: how its latest cycle ended
    last_set,               \* ghost: the argument of the latest set_monitoring_range
    last_call,              \* ghost: the latest call of the loop's API
    \* StorageOrganizer settings
    resolution,             \* self.resolution
    solar_filter,           \* self.solar_filter
    st_call,                \* ghost: the latest listing or cleanup call and its result
    \* DirectoryScraper settings and the user interfaces
    scraper_resolution,     \* scraper.resolution, compiled into scraper.file_pattern
    scraper_filter,         \* scraper.solar_filter, compiled into scraper.file_pattern
    custom_keywords,        \* self.custom_keywords: filter number -> search keyword
    resolution_var,         \* the resolution selected in the interface
    solar_filter_var,       \* the filter selected in the interface
    ui,                     \* which program runs: "gui" (nasa_gui.py), "web" (app.py)
    wpc,                    \* where _download_all_filters_worker is
    widx,                   \* its loop index into all_filters
    worig,                  \* its original_filter
    ui_call,                \* ghost: the latest interface operation that returned
    \* URLGenerator
    upc,                    \* "idle", "built" after construct_url, "extracted"
    url_in,                 \* the (date, time_sequence) given to construct_url
    url_built,              \* the URL construct_url returned
    url_out,                \* what extract_metadata_from_url returned for it
    \* URLGenerator.generate_date_range_urls
    gpc,                    \* where the call is: "idle", "loop", "ret"
    g_days,                 \* its argument days
    g_end,                  \* its argument end_date
    g_current,              \* its local current_date
    g_urls,                 \* its local urls, returned at the end
    \* DirectoryScraper
    scpc,                   \* where get_available_images_for_date_range is
    sc_start,               \* its argument start_date
    sc_end,                 \* its argument end_date
    sc_current,             \* its local current_date
    sc_all,                 \* its local all_images, returned at the end
    sc_log                  \* ghost: the scrape_directory calls made, in order

fetchVars == <<rate_limit_delay, max_retries, since_last, since_req, last_gap, nreq,
               fpc, fop, attempt, fres, gets, sleeps, only404, onlyTransient,
               lastError, calls, last_resp>>

dmVars == <<disk, download_count, failed_tasks, dpc, dtask, ddata, dfetches, logged,
            fetchCount, writeCount, hist, dcalls>>

passVars == <<available_images, new_images, tasks, disk_before, ppc, successful, failed>>

loopVars == <<is_running, monitoring_range_days, total_checks, checks_left, new_images_found,
              last_check_time, monitoring_thread, jobs, other_jobs, due, starts, mpc, spc, cpc,
              cyc, c_out, events, last_set, last_call>>

storeVars == <<resolution, solar_filter, st_call>>

uiVars == <<scraper_resolution, scraper_filter, custom_keywords, resolution_var,
            solar_filter_var, ui, wpc, widx, worig, ui_call>>

urlVars == <<upc, url_in, url_built, url_out>>

genVars == <<gpc, g_days, g_end, g_current, g_urls>>

scrapeVars == <<scpc, sc_start, sc_end, sc_current, sc_all, sc_log>>

\* The state of the calls studied by themselves.
pureVars == <<urlVars, genVars, scrapeVars>>

vars == <<fetchVars, dmVars, passVars, loopVars, storeVars, uiVars, pureVars>>

\* ---------------------------------------------------------------- helpers
Min(a, b) == IF a < b THEN a ELSE b

RECURSIVE Pow2(_)
Pow2(k) == IF k = 0 THEN 1 ELSE 2 * Pow2(k - 1)

\* An optional value: <<>> is None, <<v>> is v.
None == <<>>
Some(v) == <<v>>

\* ------------------------------------------------------------ ImageFetcher

\* What the server (or the network) answers to one request.
Transient == {"HTTP 500", "Timeout", "ConnectionError"}
Responses == {"200", "404", "Exception"} \cup Transient

\* The error_msg download_image builds for a failed attempt.
ErrorMsg(resp) ==
    CASE resp = "404" -> "Image not found (404)"
      [] resp = "HTTP 500" -> "HTTP 500"
      [] resp = "Timeout" -> "Timeout downloading"
      [] resp = "ConnectionError" -> "Connection error downloading"
      [] OTHER -> "Unexpected error downloading"

\* _exponential_backoff(attempt)
exponential_backoff_uncapped(k) == Pow2(k)
exponential_backoff(k) == Min(Pow2(k), BackoffCap)

\* _enforce_rate_limit: the time slept before the request.
rate_limit_sleep(time_since_last, delay) ==
    IF time_since_last < delay THEN delay - time_since_last ELSE 0

\* The responses download_image retries: a status other than 200 and 404
\* (lines 100-111), a timeout (113-123), a connection error (125-135).
RetriedResponse_and404(resp) == resp \in Transient \cup {"404"}
RetriedResponse_andException(resp) == resp \in Transient \cup {"Exception"}
RetriedResponse(resp) == resp \in Transient

\* download_image's test for another attempt: attempt < self.max_retries - 1
retry_allowed(k, retries) == k < retries - 1

\* The clock is kept as the time elapsed since three events, each counted up
\* to MaxDelay: the code compares elapsed time with rate_limit_delay only, and
\* rate_limit_delay <= MaxDelay.
Elapsed(x, dt) == Min(x + dt, MaxDelay)

\* No result yet (the call has not returned).
Pending == [ok |-> FALSE, data |-> None, msg |-> Some("pending")]

FetchInit ==
    /\ rate_limit_delay \in 1..MaxDelay
    /\ max_retries \in 1..MaxRetries
    /\ since_last = MaxDelay   \* last_request_time = 0.0, the epoch
    /\ since_req = MaxDelay
    /\ last_gap = MaxDelay
    /\ nreq = 0
    /\ fpc = "idle"
    /\ fop = "none"
    /\ attempt = 0
    /\ fres = Pending
    /\ gets = 0
    /\ sleeps = <<>>
    /\ only404 = TRUE
    /\ onlyTransient = TRUE
    /\ lastError = None
    /\ calls = 0
    /\ last_resp = "none"

\* download_image, lines 83-85: the rate limit, then the loop is entered.
download_image_begin ==
    /\ fpc \in {"idle", "ret"}
    /\ calls < MaxCalls
    /\ calls' = calls + 1
    /\ fop' = "download_image"
    /\ LET slept == rate_limit_sleep(since_last, rate_limit_delay)
       IN  /\ since_req' = Elapsed(since_req, slept)
           /\ since_last' = 0
    /\ attempt' = 0
    /\ gets' = 0
    /\ sleeps' = <<>>
    /\ only404' = TRUE
    /\ onlyTransient' = TRUE
    /\ lastError' = None
    /\ fres' = Pending
    /\ fpc' = "loop"
    /\ last_resp' = "none"
    /\ UNCHANGED <<rate_limit_delay, max_retries, last_gap, nreq>>

\* One iteration of download_image's loop, lines 85-140: the GET, which takes
\* d seconds and is answered resp (with a body of n bytes), and what follows.
download_image_attempt ==
    /\ fpc = "loop"
    /\ \E resp \in Responses, d \in 0..MaxReqTime, n \in 0..MaxBytes :
        /\ resp # "200" => n = 0
        /\ gets' = gets + 1
        /\ last_resp' = resp
        /\ nreq' = Min(nreq + 1, 2)
        /\ last_gap' = since_req
        /\ only404' = (only404 /\ resp = "404")
        /\ onlyTransient' = (onlyTransient /\ resp \in Transient)
        /\ CASE resp = "200" ->
                 /\ fres' = [ok |-> TRUE, data |-> Some(n), msg |-> None]
                 /\ since_req' = Elapsed(0, d)
                 /\ since_last' = Elapsed(since_last, d)
                 /\ fpc' = "ret"
                 /\ UNCHANGED <<attempt, sleeps, lastError>>
             [] resp # "200" /\ ~RetriedResponse(resp) ->
                 /\ fres' = [ok |-> FALSE, data |-> None, msg |-> Some(ErrorMsg(resp))]
                 /\ since_req' = Elapsed(0, d)
                 /\ since_last' = Elapsed(since_last, d)
                 /\ fpc' = "ret"
                 /\ lastError' = Some(ErrorMsg(resp))
                 /\ UNCHANGED <<attempt, sleeps>>
             [] OTHER ->
                 /\ lastError' = Some(ErrorMsg(resp))
                 /\ IF retry_allowed(attempt, max_retries)
                    THEN /\ since_req' = Elapsed(0, d + exponential_backoff(attempt))
                         /\ since_last' =
                                Elapsed(since_last, d + exponential_backoff(attempt))
                         /\ sleeps' = Append(sleeps, exponential_backoff(attempt))
                         /\ attempt' = attempt + 1
                         /\ fpc' = "loop"
                         /\ UNCHANGED fres
                    ELSE /\ fres' = [ok |-> FALSE, data |-> None,
                                     msg |-> Some(ErrorMsg(resp))]
                         /\ since_req' = Elapsed(0, d)
                         /\ since_last' = Elapsed(since_last, d)
                         /\ fpc' = "ret"
                         /\ UNCHANGED <<attempt, sleeps>>
    /\ UNCHANGED <<rate_limit_delay, max_retries, fop, calls>>

\* check_image_exists and get_image_size: the rate limit, one HEAD that takes
\* d seconds, and the answer.
head_request ==
    /\ fpc \in {"idle", "ret"}
    /\ calls < MaxCalls
    /\ calls' = calls + 1
    /\ \E head \in {"check_image_exists", "get_image_size"},
          resp \in Responses, d \in 0..MaxReqTime, n \in 0..MaxBytes :
        LET slept == rate_limit_sleep(since_last, rate_limit_delay)
        IN  /\ resp # "200" => n = 0
            /\ fop' = head
            /\ nreq' = Min(nreq + 1, 2)
            /\ last_gap' = Elapsed(since_req, slept)
            /\ since_req' = Elapsed(0, d)
            /\ since_last' = Elapsed(0, d)
            /\ fres' = IF head = "check_image_exists"
                       THEN [ok |-> resp = "200", data |-> None, msg |-> None]
                       \* a content-length header that is absent or empty: None
                       ELSE [ok |-> resp = "200" /\ n > 0,
                             data |-> IF resp = "200" /\ n > 0 THEN Some(n) ELSE None,
                             msg |-> None]
    /\ fpc' = "ret"
    /\ UNCHANGED <<rate_limit_delay, max_retries, attempt, gets, sleeps, only404,
                   onlyTransient, lastError, last_resp>>

FetchNext ==
    \/ download_image_begin /\ UNCHANGED <<dmVars, passVars, loopVars, storeVars, uiVars, pureVars>>
    \/ download_image_attempt /\ UNCHANGED <<dmVars, passVars, loopVars, storeVars, uiVars, pureVars>>
    \/ head_request /\ UNCHANGED <<dmVars, passVars, loopVars, storeVars, uiVars, pureVars>>


\* ------------------------------------------------------------------- data

\* The thread that calls the API, and the scheduler threads start_monitoring
\* starts: a second name is needed because a thread whose join timed out
\* may still be alive when the next one is started.
SchedThreads == {"worker", "worker2"}
Threads == {"main"} \cup SchedThreads

\* The time sequences (HHMMSS) of the file names in play.
TimeSeqs == {"000000"}

\* Day 0 stands for eight digits that strptime('%Y%m%d') rejects.
ValidDate(d) == d >= 1
Dates == 1..NumDays
Filenames == [d : 0..NumDays, t : TimeSeqs]

\* The (date, filename) tuples a scrape can yield: the pattern \d{8}_\d{6}_...
\* matches any eight digits, whatever directory page they stand on.
Tuples == Dates \X Filenames

\* ------------------------------------------------------- StorageOrganizer

\* get_date_path(date): base_data_dir/YYYY/MM/DD, the directory of the day
get_date_path(date) == date

\* get_local_path(filename, date) = get_date_path(date) / filename
get_local_path(filename, date) == <<get_date_path(date), filename>>

\* file_exists(filename, date)
file_exists_never(d, filename, date) == FALSE
file_exists(d, filename, date) == get_local_path(filename, date) \in DOMAIN d

\* get_file_size(filename, date): None when the file is missing
get_file_size(d, filename, date) ==
    IF file_exists(d, filename, date)
    THEN Some(d[get_local_path(filename, date)]) ELSE None

\* The disk with n bytes written to path p (open(p, 'wb') truncates).
Written_empty(d, p, n) == [q \in DOMAIN d \cup {p} |-> IF q = p THEN 0 ELSE d[q]]

Written(d, p, n) == [q \in DOMAIN d \cup {p} |-> IF q = p THEN n ELSE d[q]]

\* save_image(image_data, filename, date), with len(image_data) = n
save_image(d, n, filename, date) == Written(d, get_local_path(filename, date), n)

validate_file_integrity_always(d, filename, date, expected_size) == TRUE

\* validate_file_integrity(filename, date, expected_size)
validate_file_integrity(d, filename, date, expected_size) == get_file_size(d, filename, date) = Some(expected_size)

\* ------------------------------------------------------- DirectoryScraper

\* get_image_url(date, filename) = get_directory_url(date) + filename
get_image_url(date, filename) == [dir |-> date, name |-> filename]

\* filter_new_images(available_images, storage_organizer)
RECURSIVE filter_new_images(_, _)
filter_new_images(available, d) ==
    IF available = <<>> THEN <<>>
    ELSE LET date == Head(available)[1]
             filename == Head(available)[2]
             rest == filter_new_images(Tail(available), d)
         IN  IF ~file_exists(d, filename, date)
             THEN <<Head(available)>> \o rest ELSE rest

\* DownloadTask(url, target_path)
DownloadTask(url, target_path) ==
    [url |-> url, target_path |-> target_path, retry_count |-> 0,
     status |-> "pending", error_message |-> None]

\* create_download_tasks(new_images, storage_organizer)
create_download_tasks(new) ==
    [i \in 1..Len(new) |->
        DownloadTask(get_image_url(new[i][1], new[i][2]),
                     get_local_path(new[i][2], new[i][1]))]

\* -------------------------------------------------------- DownloadManager

\* What download_image can return to download_and_save: success with a body of
\* n bytes, or failure with the message of a terminal or a transient error.
DownloadImageReturns ==
    {[ok |-> TRUE, data |-> Some(n), msg |-> None] : n \in 0..MaxBytes}
    \cup {[ok |-> FALSE, data |-> None, msg |-> Some(ErrorMsg(r))] :
            r \in {"404", "Timeout"}}

\* download_and_save, lines 217-224: the file name and the date parsed from it.
task_filename(task) == task.target_path[2]
task_date_from_path(task) == task.target_path[1]
task_date(task) == task_filename(task).d

\* The (filename, date) an image is identified by.
KeyOf(task) == <<task_filename(task), task_date(task)>>

NoTask == DownloadTask(None, None)

already_on_disk_never(d, task) == FALSE

\* download_and_save, line 232: the check that skips the download.
already_on_disk(d, task) == file_exists(d, task_filename(task), task_date(task))

date_unparsable_never(task) == FALSE

\* download_and_save, lines 221-225: strptime(date_str, '%Y%m%d') raises.
date_unparsable(task) == ~ValidDate(task_date(task))

DMInit ==
    /\ download_count = 0
    /\ failed_tasks = <<>>
    /\ dpc = [t \in Threads |-> "idle"]
    /\ dtask = [t \in Threads |-> NoTask]
    /\ ddata = [t \in Threads |-> 0]
    /\ dfetches = [t \in Threads |-> 0]
    /\ fetchCount = [k \in {} |-> 0]
    /\ writeCount = [p \in {} |-> 0]
    /\ hist = <<>>
    /\ logged \in BOOLEAN
    /\ dcalls = 0

\* The files on disk at the start: any of the scraped images may be there.
DiskInit ==
    \E S \in SUBSET {get_local_path(f, f.d) : f \in {g \in Filenames : ValidDate(g.d)}} :
        disk = [p \in S |-> 1]

\* A counter of the events of key k, kept up to "more than once".
Bumped(f, k) ==
    IF logged
    THEN [x \in DOMAIN f \cup {k} |-> IF x \in DOMAIN f THEN
                (IF x = k THEN Min(f[x] + 1, 2) ELSE f[x]) ELSE 1]
    ELSE f

\* A call of thread t returns ret with its task left as task: the call's
\* locals are gone and hist, the log of the first calls, records it.
Returned(t, task, ret, fetches) ==
    /\ dpc' = [dpc EXCEPT ![t] = "idle"]
    /\ dtask' = [dtask EXCEPT ![t] = NoTask]
    /\ ddata' = [ddata EXCEPT ![t] = 0]
    /\ dfetches' = [dfetches EXCEPT ![t] = 0]
    /\ hist' = IF logged /\ Len(hist) < MaxDMCalls
               THEN Append(hist, [thread |-> t, task |-> task, ret |-> ret,
                                  fetches |-> fetches, bytes |-> ddata[t]])
               ELSE hist

\* download_and_save, lines 214-235: the task is marked DOWNLOADING, the date
\* is parsed from the file name, and an existing file ends the call.
download_and_save_begin(t, task) ==
    /\ dpc[t] = "idle"
    /\ dcalls' = Min(dcalls + 1, MaxDMCalls)
    /\ LET downloading == [task EXCEPT !.status = "downloading"]
       IN  IF date_unparsable(task)
           THEN Returned(t, [downloading EXCEPT
                              !.status = "failed",
                              !.error_message = Some("Could not parse date from filename")],
                         FALSE, 0)
           ELSE IF already_on_disk(disk, task)
           THEN Returned(t, [downloading EXCEPT !.status = "completed"], TRUE, 0)
           ELSE /\ dpc' = [dpc EXCEPT ![t] = "fetch"]
                /\ dtask' = [dtask EXCEPT ![t] = downloading]
                /\ UNCHANGED <<ddata, dfetches, hist>>
    /\ UNCHANGED <<disk, download_count, failed_tasks, fetchCount, writeCount, logged>>

error_msg_kept(error_msg) == error_msg

\* download_and_save, line 265: error_msg or "Download failed"
error_msg_or_default(error_msg) == IF error_msg \notin {None, Some("")} THEN error_msg ELSE Some("Download failed")

\* download_and_save, line 240: if success and image_data
success_and_image_data(r) == r.ok /\ r.data # None /\ r.data[1] > 0

\* download_and_save, lines 238-240 and 263-268: the fetch; a failure or an
\* empty body fails the task and appends it to failed_tasks.
download_and_save_fetch(t) ==
    /\ dpc[t] = "fetch"
    /\ fetchCount' = Bumped(fetchCount, KeyOf(dtask[t]))
    /\ \E r \in DownloadImageReturns :
        IF success_and_image_data(r)
        THEN /\ dpc' = [dpc EXCEPT ![t] = "save"]
             /\ ddata' = [ddata EXCEPT ![t] = r.data[1]]
             /\ dfetches' = [dfetches EXCEPT ![t] = @ + 1]
             /\ UNCHANGED <<dtask, hist, failed_tasks>>
        ELSE LET failed_task == [dtask[t] EXCEPT
                              !.status = "failed",
                              !.error_message = error_msg_or_default(r.msg)]
             IN  /\ failed_tasks' = Append(failed_tasks, failed_task)
                 /\ Returned(t, failed_task, FALSE, dfetches[t] + 1)
    /\ UNCHANGED <<disk, download_count, writeCount, dcalls, logged>>

\* download_and_save, lines 241-243 and 258-262: save_image writes the bytes;
\* if it raises, the task fails and the file is missing or cut short.
download_and_save_save(t) ==
    /\ dpc[t] = "save"
    /\ LET filename == task_filename(dtask[t])
           date == task_date(dtask[t])
           path == get_local_path(filename, date)
       IN  \/ /\ disk' = save_image(disk, ddata[t], filename, date)
              /\ writeCount' = Bumped(writeCount, path)
              /\ dpc' = [dpc EXCEPT ![t] = "validate"]
              /\ UNCHANGED <<dtask, ddata, dfetches, hist>>
           \/ /\ \/ UNCHANGED <<disk, writeCount>>
                 \/ \E k \in 0..(ddata[t] - 1) :
                       /\ disk' = Written(disk, path, k)
                       /\ writeCount' = Bumped(writeCount, path)
              /\ Returned(t, [dtask[t] EXCEPT !.status = "failed",
                                            !.error_message = Some("Error saving file")],
                          FALSE, dfetches[t])
    /\ UNCHANGED <<download_count, failed_tasks, fetchCount, dcalls, logged>>

download_count_kept == download_count

\* download_and_save, line 248: self.download_count += 1
download_count_incremented == download_count + 1

\* download_and_save, lines 245-256: the size check that ends the call.
download_and_save_validate(t) ==
    /\ dpc[t] = "validate"
    /\ IF validate_file_integrity(disk, task_filename(dtask[t]), task_date(dtask[t]),
                                  ddata[t])
       THEN /\ download_count' = download_count_incremented
            /\ Returned(t, [dtask[t] EXCEPT !.status = "completed"], TRUE, dfetches[t])
       ELSE /\ UNCHANGED download_count
            /\ Returned(t, [dtask[t] EXCEPT
                              !.status = "failed",
                              !.error_message = Some("File integrity check failed")],
                        FALSE, dfetches[t])
    /\ UNCHANGED <<disk, failed_tasks, fetchCount, writeCount, dcalls, logged>>

\* A caller (a script, a UI worker thread) downloads one scraped image:
\* create_download_tasks for the tuple, then download_and_save.
client_download(t) ==
    /\ dcalls < MaxDMCalls
    /\ \E tu \in Tuples :
         download_and_save_begin(t, create_download_tasks(<<tu>>)[1])
    /\ UNCHANGED <<fetchVars, passVars, loopVars, storeVars, uiVars, pureVars>>

FetchIdle ==
    /\ FetchInit
    /\ rate_limit_delay = 1
    /\ max_retries = 1

DMIdle == DMInit /\ disk = [p \in {} |-> 0]

\* One thread calls download_and_save, one call after the other.
DMNext ==
    \/ client_download("main")
    \/ download_and_save_fetch("main") /\ UNCHANGED <<fetchVars, passVars, loopVars, storeVars, uiVars, pureVars>>
    \/ download_and_save_save("main") /\ UNCHANGED <<fetchVars, passVars, loopVars, storeVars, uiVars, pureVars>>
    \/ download_and_save_validate("main") /\ UNCHANGED <<fetchVars, passVars, loopVars, storeVars, uiVars, pureVars>>

\* reset_counters(), between two calls: the count and the failed tasks are
\* cleared; hist, the log of the calls, starts again.
reset_counters ==
    /\ \A t \in Threads : dpc[t] = "idle"
    /\ download_count' = 0
    /\ failed_tasks' = <<>>
    /\ hist' = <<>>
    /\ UNCHANGED <<disk, dpc, dtask, ddata, dfetches, logged, fetchCount, writeCount, dcalls>>
    /\ UNCHANGED <<fetchVars, passVars, loopVars, storeVars, uiVars, pureVars>>

\* One thread calls download_and_save and reset_counters.
CountNext ==
    \/ client_download("main")
    \/ download_and_save_fetch("main") /\ UNCHANGED <<fetchVars, passVars, loopVars, storeVars, uiVars, pureVars>>
    \/ download_and_save_save("main") /\ UNCHANGED <<fetchVars, passVars, loopVars, storeVars, uiVars, pureVars>>
    \/ download_and_save_validate("main") /\ UNCHANGED <<fetchVars, passVars, loopVars, storeVars, uiVars, pureVars>>
    \/ reset_counters

\* Lists of at most n elements of S.
RECURSIVE ListsUpTo(_, _)
ListsUpTo(S, n) ==
    IF n = 0 THEN {<<>>}
    ELSE LET shorter == ListsUpTo(S, n - 1)
         IN  shorter \cup {Append(l, x) : l \in shorter, x \in S}

Range(l) == {l[i] : i \in 1..Len(l)}

PassIdle ==
    /\ available_images = <<>>
    /\ new_images = <<>>
    /\ tasks = <<>>
    /\ disk_before = [p \in {} |-> 0]
    /\ ppc = "none"
    /\ successful = 0
    /\ failed = 0

\* A pass starts from any discovered list and any files on disk (of the files
\* on disk only those the list names matter to the pass).
PassInit ==
    /\ available_images \in ListsUpTo(Tuples, MaxList)
    /\ \E S \in SUBSET {get_local_path(tu[2], tu[1]) : tu \in Range(available_images)} :
          disk \in [S -> 0..1]
    /\ new_images = <<>>
    /\ tasks = <<>>
    /\ disk_before = disk
    /\ ppc = "scraped"
    /\ successful = 0
    /\ failed = 0

\* new_images = scraper.filter_new_images(available_images, storage)
pass_filter_new_images ==
    /\ ppc = "scraped"
    /\ new_images' = filter_new_images(available_images, disk)
    /\ disk_before' = disk
    /\ ppc' = "filtered"
    /\ UNCHANGED <<available_images, tasks, successful, failed>>
    /\ UNCHANGED <<fetchVars, dmVars, loopVars, storeVars, uiVars, pureVars>>

\* tasks = scraper.create_download_tasks(new_images, storage)
pass_create_download_tasks ==
    /\ ppc = "filtered"
    /\ tasks' = create_download_tasks(new_images)
    /\ ppc' = "tasks"
    /\ UNCHANGED <<available_images, new_images, disk_before, successful, failed>>
    /\ UNCHANGED <<fetchVars, dmVars, loopVars, storeVars, uiVars, pureVars>>

PassNext == pass_filter_new_images \/ pass_create_download_tasks

\* download_real_images.py, lines 131-139: the result of one call is counted.
pass_count(success) ==
    IF success
    THEN successful' = successful + 1 /\ UNCHANGED failed
    ELSE failed' = failed + 1 /\ UNCHANGED successful

\* download_real_images.py, lines 125-129: the loop calls download_and_save
\* for the next task; the call may return at once.
pass_download_next ==
    /\ ppc = "tasks"
    /\ dpc["main"] = "idle"
    /\ successful + failed < Len(tasks)
    /\ LET task == tasks[successful + failed + 1]
       IN  /\ download_and_save_begin("main", task)
           /\ IF dpc'["main"] = "idle"
              THEN pass_count(~date_unparsable(task) /\ already_on_disk(disk, task))
              ELSE UNCHANGED <<successful, failed>>
    /\ UNCHANGED <<available_images, new_images, tasks, disk_before, ppc>>
    /\ UNCHANGED <<fetchVars, loopVars, storeVars, uiVars, pureVars>>

\* The call goes on; when it returns its result is counted. Only the size
\* check returns True, and then download_count has grown.
pass_download_step ==
    /\ ppc = "tasks"
    /\ \/ download_and_save_fetch("main")
       \/ download_and_save_save("main")
       \/ download_and_save_validate("main")
    /\ IF dpc'["main"] = "idle"
       THEN pass_count(download_count' > download_count)
       ELSE UNCHANGED <<successful, failed>>
    /\ UNCHANGED <<available_images, new_images, tasks, disk_before, ppc>>
    /\ UNCHANGED <<fetchVars, loopVars, storeVars, uiVars, pureVars>>

\* A script's pass with its downloads.
PassDownloadNext ==
    \/ pass_filter_new_images
    \/ pass_create_download_tasks
    \/ pass_download_next
    \/ pass_download_step


\* ------------------------------------------- StorageOrganizer, by pattern

\* The resolutions and filters in play; the constructor's defaults first.
Resolutions == {"1024", "2048"}
Filters == {"0211", "0193"}

\* The pairs the files on disk were downloaded with.
Pairs == {<<"1024", "0211">>, <<"2048", "0193">>}

\* The names YYYYMMDD_HHMMSS_<res>_<flt>.jpg of the files under base_data_dir:
\* two embedded dates give a directory two names of one pair to sort.
StoreNames ==
    {[d |-> dd, t |-> ts, res |-> pr[1], flt |-> pr[2]] :
        dd \in {1, 2}, ts \in TimeSeqs, pr \in Pairs}

\* glob("*_{resolution}_{solar_filter}.jpg") matches the name.
glob_matches_any(name, res, flt) == TRUE

glob_matches(name, res, flt) == name.res = res /\ name.flt = flt

\* The files of the date directory that the active pattern matches.
globbed(d, date, res, flt) ==
    {p \in DOMAIN d : p[1] = date /\ glob_matches(p[2], res, flt)}

\* The order of sorted() on names of one pattern: by the embedded date (one
\* time sequence is in play).
name_before(a, b) == a.d < b.d

\* An enumeration of a finite set, as glob yields its matches in any order.
enumerated(S) ==
    CHOOSE l \in [1..Cardinality(S) -> S] : \A i, j \in DOMAIN l : i # j => l[i] # l[j]

NoStoreCall == [op |-> "none", date |-> 0, ret |-> <<>>, before |-> <<>>]

StoreIdle ==
    /\ resolution = "1024"
    /\ solar_filter = "0211"
    /\ st_call = NoStoreCall

\* StorageOrganizer() with the default pattern over at most MaxFiles files,
\* empty or not.
StoreInit ==
    /\ resolution = "1024"
    /\ solar_filter = "0211"
    /\ st_call = NoStoreCall
    /\ \E S \in SUBSET (Dates \X StoreNames) :
          /\ Cardinality(S) <= MaxFiles
          /\ disk \in [S -> 0..1]

\* update_file_pattern(resolution, solar_filter)
update_file_pattern(res, flt) ==
    /\ resolution' = res
    /\ solar_filter' = flt
    /\ st_call' = [op |-> "update_file_pattern", date |-> 0, ret |-> <<>>,
                   before |-> disk]
    /\ UNCHANGED <<fetchVars, dmVars, passVars, loopVars, uiVars, pureVars>>

\* What list_local_images(date) returns under the pattern (res, flt): the
\* sorted names the pattern matches.
listed(d, date, res, flt) ==
    SortSeq(enumerated({p[2] : p \in globbed(d, date, res, flt)}), name_before)

\* list_local_images(date)
list_local_images(date) ==
    /\ st_call' = [op |-> "list_local_images", date |-> date,
                   ret |-> listed(disk, date, resolution, solar_filter),
                   before |-> disk]
    /\ UNCHANGED <<resolution, solar_filter>>
    /\ UNCHANGED <<fetchVars, dmVars, passVars, loopVars, uiVars, pureVars>>

is_corrupted_any(size) == TRUE

\* cleanup_corrupted_files, line 273: file_path.stat().st_size == 0
is_corrupted(size) == size = 0

\* cleanup_corrupted_files(date): the matching files of size 0 are unlinked
\* and counted.
cleanup_corrupted_files(date) ==
    /\ LET removed == {p \in globbed(disk, date, resolution, solar_filter) :
                         is_corrupted(disk[p])}
       IN  /\ disk' = [p \in DOMAIN disk \ removed |-> disk[p]]
           /\ st_call' = [op |-> "cleanup_corrupted_files", date |-> date,
                          ret |-> Cardinality(removed), before |-> disk]
    /\ UNCHANGED <<resolution, solar_filter>>
    /\ UNCHANGED <<download_count, failed_tasks, dpc, dtask, ddata, dfetches, logged,
                   fetchCount, writeCount, hist, dcalls>>
    /\ UNCHANGED <<fetchVars, passVars, loopVars, uiVars, pureVars>>

\* A caller saves n bytes as filename under date: save_image returns the
\* path, or open or write raises and the file is missing or cut short.
store_save_image(n, filename, date) ==
    /\ \/ /\ disk' = save_image(disk, n, filename, date)
          /\ st_call' = [op |-> "save_image", date |-> date,
                         ret |-> [path |-> get_local_path(filename, date),
                                  filename |-> filename, len |-> n],
                         before |-> disk]
       \/ /\ \/ UNCHANGED disk
             \/ \E k \in 0..(n - 1) :
                   disk' = Written(disk, get_local_path(filename, date), k)
          /\ st_call' = [op |-> "save_image raised", date |-> date, ret |-> <<>>,
                         before |-> disk]
    /\ UNCHANGED <<resolution, solar_filter>>
    /\ UNCHANGED <<download_count, failed_tasks, dpc, dtask, ddata, dfetches, logged,
                   fetchCount, writeCount, hist, dcalls>>
    /\ UNCHANGED <<fetchVars, passVars, loopVars, uiVars, pureVars>>

\* One save_image call on a data directory of at most MaxFiles files.
SaveNext ==
    \E n \in 0..MaxBytes, filename \in StoreNames, date \in Dates :
        st_call.op = "none" /\ store_save_image(n, filename, date)

StoreNext ==
    \/ \E res \in Resolutions, flt \in Filters : update_file_pattern(res, flt)
    \/ \E date \in Dates : list_local_images(date)
    \/ \E date \in Dates : cleanup_corrupted_files(date)

\* -------------------------------------------------------- user interfaces

\* list(self.filter_data.keys()), the filters download-all walks through
all_filters == <<"0211", "0193">>

\* The search keywords a user may enter for a filter.
Keywords == Filters

\* DirectoryScraper.update_filters(resolution, solar_filter): the two
\* settings, from which file_pattern is compiled.
update_filters(res, flt) ==
    /\ scraper_resolution' = res
    /\ scraper_filter' = flt

\* The storage half of a settings change made by an interface.
storage_update_file_pattern(res, flt) ==
    /\ resolution' = res
    /\ solar_filter' = flt

\* scrape_directory: file_pattern matches the name of a listed file.
file_pattern_matches(name, res, flt) == name.res = res /\ name.flt = flt

\* The images a server directory may list for a date, of any pair.
ServerNames(date) ==
    {[d |-> date, t |-> ts, res |-> res, flt |-> flt] :
        ts \in TimeSeqs, res \in Resolutions, flt \in Filters}

\* get_available_images_for_date_range followed by filter_new_images: the
\* listed (date, filename) tuples file_pattern matches and storage lacks.
discovered_new(d, listing, res, flt) ==
    {tu \in listing : /\ file_pattern_matches(tu[2], res, flt)
                      /\ ~file_exists(d, tu[2], tu[1])}

\* The download of a one-day range with the scraper settings (res, flt): the
\* discovered new images of the day's server listing, which holds at most
\* MaxNew images, are saved and counted.
downloads_new(res, flt) ==
    \E date \in Dates : \E listing \in SUBSET {<<date, n>> : n \in ServerNames(date)} :
        /\ Cardinality(listing) <= MaxNew
        /\ LET new == discovered_new(disk, listing, res, flt)
           IN  /\ Cardinality(DOMAIN disk \cup {get_local_path(tu[2], tu[1]) : tu \in new})
                      <= MaxFiles
               /\ disk' = [p \in DOMAIN disk \cup
                                 {get_local_path(tu[2], tu[1]) : tu \in new} |->
                              IF p \in DOMAIN disk THEN disk[p] ELSE 1]
               /\ download_count' = download_count + Cardinality(new)
    /\ UNCHANGED <<failed_tasks, dpc, dtask, ddata, dfetches, logged, fetchCount,
                   writeCount, hist, dcalls>>

UiCall(op) == [op |-> op]

NoUiCall == [op |-> "none"]

\* The settings each interface and its scraper are constructed with.
UiSettingsIdle ==
    /\ scraper_resolution = "1024"
    /\ scraper_filter = "0211"
    /\ custom_keywords = [f \in Filters |-> f]
    /\ resolution_var = "1024"
    /\ solar_filter_var = "0211"
    /\ wpc = "idle"
    /\ widx = 0
    /\ worig = "0211"
    /\ ui_call = NoUiCall

UiIdle == UiSettingsIdle /\ ui = "none"

UiInit == UiSettingsIdle /\ ui \in {"gui", "web"}

\* custom_keywords.get(solar_filter, solar_filter), get_current_search_keyword
search_keyword(flt) == custom_keywords[flt]

\* app.py update_custom_keyword, and the keyword entry of the GUI: the
\* keyword of a filter is edited; nothing is applied yet.
update_custom_keyword(f, k) ==
    /\ custom_keywords' = [custom_keywords EXCEPT ![f] = k]
    /\ ui_call' = UiCall("update_custom_keyword")
    /\ UNCHANGED <<scraper_resolution, scraper_filter, resolution_var,
                   solar_filter_var, ui, wpc, widx, worig>>
    /\ UNCHANGED <<resolution, solar_filter, st_call>>
    /\ UNCHANGED dmVars

\* app.py download_images(start, end, resolution, solar_filter)
download_images(res, flt) ==
    /\ ui = "web"
    /\ resolution_var' = res
    /\ solar_filter_var' = flt
    /\ update_filters(res, search_keyword(flt))
    /\ storage_update_file_pattern(res, search_keyword(flt))
    /\ downloads_new(res, search_keyword(flt))
    /\ ui_call' = UiCall("download_images")
    /\ UNCHANGED <<custom_keywords, ui, wpc, widx, worig, st_call>>

\* app.py load_images_for_date_range(from_date, to_date, resolution, filter):
\* the storage pattern is updated, the scraper is not (lines 250-257); the
\* listing of the range that follows reads the disk and changes nothing.
load_images_for_date_range(res, flt) ==
    /\ ui = "web"
    /\ resolution_var' = res
    /\ solar_filter_var' = flt
    /\ storage_update_file_pattern(res, search_keyword(flt))
    /\ UNCHANGED <<scraper_resolution, scraper_filter>>
    /\ UNCHANGED st_call
    /\ ui_call' = UiCall("load_images_for_date_range")
    /\ UNCHANGED <<custom_keywords, ui, wpc, widx, worig>>
    /\ UNCHANGED dmVars

\* app.py create_video(start, end, fps, resolution, solar_filter): the
\* settings are updated; the listing of the range that follows reads the
\* disk and the video is written outside the image store.
create_video(res, flt) ==
    /\ ui = "web"
    /\ resolution_var' = res
    /\ solar_filter_var' = flt
    /\ update_filters(res, search_keyword(flt))
    /\ storage_update_file_pattern(res, search_keyword(flt))
    /\ UNCHANGED st_call
    /\ ui_call' = UiCall("create_video")
    /\ UNCHANGED <<custom_keywords, ui, wpc, widx, worig>>
    /\ UNCHANGED dmVars

\* nasa_gui.py on_filter_change, bound to the resolution and filter widgets:
\* the selection changes and both components are updated.
on_filter_change(res, flt) ==
    /\ ui = "gui"
    /\ resolution_var' = res
    /\ solar_filter_var' = flt
    /\ update_filters(res, search_keyword(flt))
    /\ storage_update_file_pattern(res, search_keyword(flt))
    /\ ui_call' = UiCall("on_filter_change")
    /\ UNCHANGED <<custom_keywords, ui, wpc, widx, worig, st_call>>
    /\ UNCHANGED dmVars

\* nasa_gui.py apply_custom_keywords
apply_custom_keywords ==
    /\ ui = "gui"
    /\ update_filters(resolution_var, search_keyword(solar_filter_var))
    /\ storage_update_file_pattern(resolution_var, search_keyword(solar_filter_var))
    /\ ui_call' = UiCall("apply_custom_keywords")
    /\ UNCHANGED <<custom_keywords, resolution_var, solar_filter_var, ui, wpc, widx,
                   worig, st_call>>
    /\ UNCHANGED dmVars

\* nasa_gui.py start_download_all_filters: the worker thread starts, unless a
\* download thread is alive; the worker reads original_filter.
start_download_all_filters ==
    /\ ui = "gui"
    /\ wpc = "idle"
    /\ wpc' = "scraper"
    /\ widx' = 1
    /\ worig' = solar_filter_var
    /\ UNCHANGED <<scraper_resolution, scraper_filter, custom_keywords, resolution_var,
                   solar_filter_var, ui, ui_call>>
    /\ UNCHANGED <<resolution, solar_filter, st_call>>
    /\ UNCHANGED dmVars

\* _download_all_filters_worker, lines 3211-3214: the next filter is selected
\* and the scraper updated.
worker_update_filters ==
    /\ wpc = "scraper"
    /\ solar_filter_var' = all_filters[widx]
    /\ update_filters(resolution_var, all_filters[widx])
    /\ wpc' = "storage"
    /\ UNCHANGED <<custom_keywords, resolution_var, ui, widx, worig, ui_call>>
    /\ UNCHANGED <<resolution, solar_filter, st_call>>
    /\ UNCHANGED dmVars

\* _download_all_filters_worker, lines 3215-3264: the storage pattern is
\* updated and the filter's new images are downloaded with the settings the
\* scraper has by then.
worker_download_filter ==
    /\ wpc = "storage"
    /\ storage_update_file_pattern(resolution_var, all_filters[widx])
    /\ downloads_new(scraper_resolution, scraper_filter)
    /\ widx' = widx + 1
    /\ wpc' = IF widx < Len(all_filters) THEN "scraper" ELSE "restore"
    /\ UNCHANGED <<scraper_resolution, scraper_filter, custom_keywords, resolution_var,
                   solar_filter_var, ui, worig, ui_call, st_call>>

\* _download_all_filters_worker, lines 3267-3268: the original filter is
\* selected again and the scraper updated.
worker_restore_filters ==
    /\ wpc = "restore"
    /\ solar_filter_var' = worig
    /\ update_filters(resolution_var, worig)
    /\ wpc' = "restore_storage"
    /\ UNCHANGED <<custom_keywords, resolution_var, ui, widx, worig, ui_call>>
    /\ UNCHANGED <<resolution, solar_filter, st_call>>
    /\ UNCHANGED dmVars

\* _download_all_filters_worker, line 3269: the storage pattern is restored
\* and the worker ends.
worker_restore_pattern ==
    /\ wpc = "restore_storage"
    /\ storage_update_file_pattern(resolution_var, worig)
    /\ wpc' = "idle"
    /\ widx' = 0
    /\ ui_call' = UiCall("download_all_filters")
    /\ UNCHANGED <<scraper_resolution, scraper_filter, custom_keywords, resolution_var,
                   solar_filter_var, ui, worig, st_call>>
    /\ UNCHANGED dmVars

UiNext ==
    \/ /\ \E f \in Filters, k \in Keywords : update_custom_keyword(f, k)
       /\ UNCHANGED <<fetchVars, passVars, loopVars, pureVars>>
    \/ /\ \E res \in Resolutions, flt \in Filters : download_images(res, flt)
       /\ UNCHANGED <<fetchVars, passVars, loopVars, pureVars>>
    \/ /\ \E res \in Resolutions, flt \in Filters :
              load_images_for_date_range(res, flt)
       /\ UNCHANGED <<fetchVars, passVars, loopVars, pureVars>>
    \/ /\ \E res \in Resolutions, flt \in Filters : create_video(res, flt)
       /\ UNCHANGED <<fetchVars, passVars, loopVars, pureVars>>
    \/ /\ \E res \in Resolutions, flt \in Filters : on_filter_change(res, flt)
       /\ UNCHANGED <<fetchVars, passVars, loopVars, pureVars>>
    \/ apply_custom_keywords /\ UNCHANGED <<fetchVars, passVars, loopVars, pureVars>>
    \/ start_download_all_filters /\ UNCHANGED <<fetchVars, passVars, loopVars, pureVars>>
    \/ worker_update_filters /\ UNCHANGED <<fetchVars, passVars, loopVars, pureVars>>
    \/ worker_download_filter /\ UNCHANGED <<fetchVars, passVars, loopVars, pureVars>>
    \/ worker_restore_filters /\ UNCHANGED <<fetchVars, passVars, loopVars, pureVars>>
    \/ worker_restore_pattern /\ UNCHANGED <<fetchVars, passVars, loopVars, pureVars>>

\* ---------------------------------------------------------- URLGenerator

\* A datetime: a calendar day (a day number of a four-digit year, 0 for no
\* valid date) and a time of day, 0 being midnight.
Datetime(day, tod) == [day |-> day, tod |-> tod]

\* date.strftime("%Y%m%d"), and "%Y", "%m", "%d": the calendar day alone.
strftime_date(date) == date.day

\* URLGenerator.RESOLUTION and URLGenerator.INSTRUMENT_CODE
RESOLUTION == "4096"
INSTRUMENT_CODE == "0211"

url_filename_1024(date_str, time_sequence) == [d |-> date_str, t |-> time_sequence, res |-> "1024", flt |-> INSTRUMENT_CODE]

\* construct_url, line 129: the file name, with the class constants in it
url_filename(date_str, time_sequence) == [d |-> date_str, t |-> time_sequence, res |-> RESOLUTION, flt |-> INSTRUMENT_CODE]

\* construct_url(date, time_sequence): the day names the directory and is
\* embedded in the file name, followed by the time sequence as given.
construct_url(date, time_sequence) ==
    [dir |-> strftime_date(date),
     name |-> url_filename(strftime_date(date), time_sequence)]

\* The characters of the time sequences in play.
Digits == {"0", "1", "2", "3", "4", "5", "6", "7", "8", "9"}

TimeChars ==
    [ts \in {"000000", "123059", "1200", "12:30:59"} |->
        CASE ts = "000000" -> <<"0", "0", "0", "0", "0", "0">>
          [] ts = "123059" -> <<"1", "2", "3", "0", "5", "9">>
          [] ts = "1200" -> <<"1", "2", "0", "0">>
          [] ts = "12:30:59" -> <<"1", "2", ":", "3", "0", ":", "5", "9">>]

TimeInputs == DOMAIN TimeChars

\* url_pattern, the group (\d{6}) between the two underscores
six_digits_always(ts) == TRUE

six_digits(ts) == Len(TimeChars[ts]) = 6 /\ \A i \in 1..6 : TimeChars[ts][i] \in Digits

\* generate_daily_urls(date): one URL per time pattern of the day.
generate_daily_urls(date) ==
    LET times == CHOOSE l \in [1..Cardinality(TimeSeqs) -> TimeSeqs] :
                     \A i, j \in DOMAIN l : i # j => l[i] # l[j]
    IN  [i \in DOMAIN times |-> construct_url(date, times[i])]

\* extract_metadata_from_url(url): (None, None) unless url_pattern matches and
\* the directory is a date; else datetime(year, month, day) of the directory,
\* which is midnight of that day, and the time sequence of the file name.
extract_metadata_from_url(url) ==
    IF /\ six_digits(url.name.t)
       /\ ValidDate(url.dir)
       /\ url.name.res = RESOLUTION
       /\ url.name.flt = INSTRUMENT_CODE
    THEN <<Some(Datetime(url.dir, 0)), Some(url.name.t)>>
    ELSE <<None, None>>

\* Python's truth value of a returned element: None is false, a datetime and
\* a non-empty string are true.
truthy(x) == x # None

NoUrl == [dir |-> 0, name |-> url_filename(0, "000000")]

UrlIdle ==
    /\ upc = "idle"
    /\ url_in = <<Datetime(0, 0), "000000">>
    /\ url_built = NoUrl
    /\ url_out = <<None, None>>

\* A caller builds the URL of an image from a datetime and a time sequence.
url_construct(date, time_sequence) ==
    /\ upc' = "built"
    /\ url_in' = <<date, time_sequence>>
    /\ url_built' = construct_url(date, time_sequence)
    /\ UNCHANGED url_out

\* The caller reads the metadata back from the URL it built.
url_extract ==
    /\ upc = "built"
    /\ upc' = "extracted"
    /\ url_out' = extract_metadata_from_url(url_built)
    /\ UNCHANGED <<url_in, url_built>>

UrlNext ==
    \/ /\ \E day \in Dates, tod \in 0..MaxTod, ts \in TimeInputs :
              url_construct(Datetime(day, tod), ts)
       /\ UNCHANGED <<fetchVars, dmVars, passVars, loopVars, storeVars, uiVars, genVars, scrapeVars>>
    \/ /\ url_extract
       /\ UNCHANGED <<fetchVars, dmVars, passVars, loopVars, storeVars, uiVars, genVars, scrapeVars>>

\* ---------------------------------- URLGenerator.generate_date_range_urls

\* generate_daily_urls, lines 98-103: range(24), the minutes and the seconds
HoursPerDay == 24
Minutes == <<0, 12, 24, 36, 48>>
Seconds == <<0, 30, 59>>

\* generate_daily_urls, lines 95-105: time_patterns, in the order of the three
\* nested loops. A time sequence f"{hour:02d}{minute:02d}{second:02d}" has
\* fixed width, so it is given by its three numbers.
time_patterns ==
    [i \in 1..(HoursPerDay * Len(Minutes) * Len(Seconds)) |->
        <<(i - 1) \div (Len(Minutes) * Len(Seconds)),
          Minutes[(((i - 1) % (Len(Minutes) * Len(Seconds))) \div Len(Seconds)) + 1],
          Seconds[((i - 1) % Len(Seconds)) + 1]>>]

\* generate_daily_urls(date), lines 107-112: one URL per time pattern.
daily_urls(date) ==
    [i \in DOMAIN time_patterns |-> construct_url(date, time_patterns[i])]

\* date - timedelta(days = n): the time of day is kept.
minus_days(date, n) == Datetime(date.day - n, date.tod)

\* current_date <= end_date on datetimes
not_after(a, b) == a.day < b.day \/ (a.day = b.day /\ a.tod <= b.tod)

\* generate_date_range_urls, line 65
range_start_days_back(end_date, days) == minus_days(end_date, days)

range_start(end_date, days) == minus_days(end_date, days - 1)

\* The end dates given: end days that leave room for MaxRange + 1 days.
RangeEnds == (MaxRange + 1)..(2 * MaxRange + 1)

GenIdle ==
    /\ gpc = "idle"
    /\ g_days = 0
    /\ g_end = Datetime(0, 0)
    /\ g_current = Datetime(0, 0)
    /\ g_urls = <<>>

\* generate_date_range_urls(days, end_date), lines 60-68
generate_date_range_urls_begin(days, end_date) ==
    /\ gpc \in {"idle", "ret"}
    /\ gpc' = "loop"
    /\ g_days' = days
    /\ g_end' = end_date
    /\ g_current' = range_start(end_date, days)
    /\ g_urls' = <<>>

\* lines 69-72: one turn of the while loop
generate_date_range_urls_day ==
    /\ gpc = "loop"
    /\ not_after(g_current, g_end)
    /\ g_urls' = g_urls \o daily_urls(g_current)
    /\ g_current' = minus_days(g_current, -1)
    /\ UNCHANGED <<gpc, g_days, g_end>>

\* line 74: return urls
generate_date_range_urls_return ==
    /\ gpc = "loop"
    /\ ~not_after(g_current, g_end)
    /\ gpc' = "ret"
    /\ UNCHANGED <<g_days, g_end, g_current, g_urls>>

GenNext ==
    \/ /\ \E days \in 0..(MaxRange + 1), day \in RangeEnds, tod \in 0..MaxTod :
              generate_date_range_urls_begin(days, Datetime(day, tod))
       /\ UNCHANGED <<fetchVars, dmVars, passVars, loopVars, storeVars, uiVars, urlVars, scrapeVars>>
    \/ /\ generate_date_range_urls_day
       /\ UNCHANGED <<fetchVars, dmVars, passVars, loopVars, storeVars, uiVars, urlVars, scrapeVars>>
    \/ /\ generate_date_range_urls_return
       /\ UNCHANGED <<fetchVars, dmVars, passVars, loopVars, storeVars, uiVars, urlVars, scrapeVars>>

\* ------------------------------------------------------ DirectoryScraper

\* What a directory page holds where file names stand: anchors with an href
\* and runs of text, in document order.
PageItems == [tag : {"a", "text"}, name : StoreNames]

Pages == UNION {[1..n -> PageItems] : n \in 0..MaxItems}

\* What session.get and the parser can do: a 200 response with a page, a 404,
\* another status, a requests exception, an exception of the parser.
ScrapeResponses ==
    {[status |-> "200", page |-> pg] : pg \in Pages}
        \cup {[status |-> st, page |-> <<>>] : st \in {"404", "500", "RequestException", "Exception"}}

\* lines 99-104: the group of file_pattern.search(href) for each anchor it
\* matches, appended without a look at what the list holds.
RECURSIVE href_matches(_, _, _)
href_matches(page, res, flt) ==
    IF page = <<>> THEN <<>>
    ELSE LET item == Head(page)
             rest == href_matches(Tail(page), res, flt)
         IN  IF item.tag = "a" /\ file_pattern_matches(item.name, res, flt)
             THEN <<item.name>> \o rest ELSE rest

\* line 108: file_pattern.findall(page_text), the page text being the whole
\* document, attribute values included.
RECURSIVE findall(_, _, _)
findall(page, res, flt) ==
    IF page = <<>> THEN <<>>
    ELSE LET item == Head(page)
             rest == findall(Tail(page), res, flt)
         IN  IF file_pattern_matches(item.name, res, flt)
             THEN <<item.name>> \o rest ELSE rest

InSeq(x, s) == \E i \in DOMAIN s : s[i] = x

\* lines 109-111: for match in matches: if match not in image_files: append
RECURSIVE append_absent(_, _)
append_absent(image_files, matches) ==
    IF matches = <<>> THEN image_files
    ELSE append_absent(IF InSeq(Head(matches), image_files) THEN image_files
                       ELSE Append(image_files, Head(matches)),
                       Tail(matches))

\* scrape_directory(date) on the response the server gave: [] on a 404, on
\* another status and on an exception, else the sorted matches.
scrape_directory(resp, res, flt) ==
    IF resp.status # "200" THEN <<>>
    ELSE SortSeq(append_absent(href_matches(resp.page, res, flt),
                               findall(resp.page, res, flt)), name_before)

\* get_available_images_for_date_range, lines 137 and 146
range_continues_before_end(current_date, end_date) == current_date.day < end_date.day

range_continues(current_date, end_date) == not_after(current_date, end_date)

ScrapeIdle ==
    /\ scpc = "idle"
    /\ sc_start = Datetime(0, 0)
    /\ sc_end = Datetime(0, 0)
    /\ sc_current = Datetime(0, 0)
    /\ sc_all = <<>>
    /\ sc_log = <<>>

\* A scrape_directory(date) call by itself.
scrape_directory_call(date, resp) ==
    /\ scpc = "idle"
    /\ sc_log' = <<[date |-> date, resp |-> resp,
                    files |-> scrape_directory(resp, scraper_resolution, scraper_filter),
                    slept |-> FALSE]>>
    /\ UNCHANGED <<scpc, sc_start, sc_end, sc_current, sc_all>>

\* get_available_images_for_date_range(start_date, end_date), lines 134-135
get_available_images_for_date_range_begin(start_date, end_date) ==
    /\ scpc \in {"idle", "ret"}
    /\ scpc' = "loop"
    /\ sc_start' = start_date
    /\ sc_end' = end_date
    /\ sc_current' = start_date
    /\ sc_all' = <<>>
    /\ sc_log' = <<>>

\* lines 137-148: one turn of the while loop: the day is scraped, its file
\* names are paired with current_date, and the call sleeps unless the day
\* was the last.
get_available_images_for_date_range_day(resp) ==
    /\ scpc = "loop"
    /\ range_continues(sc_current, sc_end)
    /\ LET filenames == scrape_directory(resp, scraper_resolution, scraper_filter)
           next_date == minus_days(sc_current, -1)
       IN  /\ sc_all' = sc_all \o [i \in DOMAIN filenames |-> <<sc_current, filenames[i]>>]
           /\ sc_current' = next_date
           /\ sc_log' = Append(sc_log, [date |-> sc_current, resp |-> resp,
                                        files |-> filenames,
                                        slept |-> range_continues(next_date, sc_end)])
    /\ UNCHANGED <<scpc, sc_start, sc_end>>

\* line 150: return all_images
get_available_images_for_date_range_return ==
    /\ scpc = "loop"
    /\ ~range_continues(sc_current, sc_end)
    /\ scpc' = "ret"
    /\ UNCHANGED <<sc_start, sc_end, sc_current, sc_all, sc_log>>

\* The pages the days of a range are scraped from: those of at most one
\* item, and the failures. The callers give two dates parsed from YYYY-MM-DD, or one
\* datetime twice: start and end share their time of day.
RangeResponses == {r \in ScrapeResponses : Len(r.page) <= 1}

ScrapeNext ==
    \E date \in Dates, resp \in ScrapeResponses :
        /\ scrape_directory_call(Datetime(date, 0), resp)
        /\ UNCHANGED <<fetchVars, dmVars, passVars, loopVars, storeVars, uiVars, urlVars, genVars>>

ScrapeRangeNext ==
    \/ /\ \E d1 \in Dates, d2 \in Dates, tod \in 0..MaxTod :
              get_available_images_for_date_range_begin(Datetime(d1, tod), Datetime(d2, tod))
       /\ UNCHANGED <<fetchVars, dmVars, passVars, loopVars, storeVars, uiVars, urlVars, genVars>>
    \/ /\ \E resp \in RangeResponses : get_available_images_for_date_range_day(resp)
       /\ UNCHANGED <<fetchVars, dmVars, passVars, loopVars, storeVars, uiVars, urlVars, genVars>>
    \/ /\ get_available_images_for_date_range_return
       /\ UNCHANGED <<fetchVars, dmVars, passVars, loopVars, storeVars, uiVars, urlVars, genVars>>

\* The calls studied by themselves that are not in play.
RestIdle == GenIdle /\ ScrapeIdle

\* -------------------------------------------------------- MonitoringLoop

\* datetime.now(): the day the cycles run on; every day of the longest range
\* is a valid date.
Today == MaxRange + 1

\* _check_for_new_images, lines 101-109: the URLs of start_date..end_date.
RECURSIVE recent_urls_from(_, _)
recent_urls_from(current_date, end_date) ==
    IF current_date <= end_date
    THEN generate_daily_urls(Datetime(current_date, 1))
             \o recent_urls_from(current_date + 1, end_date)
    ELSE <<>>

recent_start_date(end_date, days) == end_date - days

recent_urls(end_date, days) == recent_urls_from(recent_start_date(end_date, days), end_date)

\* The calendar days a list of URLs spans.
DaysOf(urls) == {urls[i].dir : i \in 1..Len(urls)}

loop_is_new_always(d, filename, date) == TRUE

\* _filter_new_images, line 163: if not self.storage.file_exists(filename, date)
loop_is_new(d, filename, date) == ~file_exists(d, filename, date)

\* _filter_new_images(urls)
RECURSIVE loop_filter_new_images(_, _)
loop_filter_new_images(urls, d) ==
    IF urls = <<>> THEN <<>>
    ELSE LET meta == extract_metadata_from_url(Head(urls))
             filename == Head(urls).name
             rest == loop_filter_new_images(Tail(urls), d)
         IN  IF ~truthy(meta[1]) \/ ~truthy(meta[2]) THEN rest
             ELSE IF loop_is_new(d, filename, meta[1][1].day)
             THEN <<Head(urls)>> \o rest ELSE rest

\* A call of the API: the method, is_running when it was called, its argument
\* and whether it raised.
ApiCall(op, arg, raised) ==
    [op |-> op, running |-> is_running, arg |-> arg, raised |-> raised]

NoCall == [op |-> "none", running |-> FALSE, arg |-> 0, raised |-> FALSE]

\* One entry of the log of a check: what happened and the number that goes
\* with it (the check's number, the index of the URL, the number of new URLs).
Event(e, i) == [e |-> e, i |-> i]

\* The log of a thread whose checks are not logged.
NotLogged == <<Event("not logged", 0)>>

\* range_at_start records monitoring_range_days as it was when the check began.
NoCycle == [caller |-> "none", job |-> 0, start |-> 0, range_at_start |-> 0,
            range |-> 0, recent |-> <<>>, urls |-> <<>>, idx |-> 0]

LoopIdle ==
    /\ is_running = FALSE
    /\ monitoring_range_days = 1
    /\ total_checks = 0
    /\ checks_left = 0
    /\ new_images_found = 0
    /\ last_check_time = None
    /\ monitoring_thread = None
    /\ jobs = {}
    /\ other_jobs = {}
    /\ events = [t \in Threads |-> NotLogged]
    /\ due = {}
    /\ starts = 0
    /\ mpc = "idle"
    /\ spc = [t \in SchedThreads |-> "off"]
    /\ cpc = [t \in Threads |-> "none"]
    /\ cyc = [t \in Threads |-> NoCycle]
    /\ c_out = [t \in Threads |-> "none"]
    /\ last_set = None
    /\ last_call = NoCall

\* MonitoringLoop(url_generator, download_manager, storage,
\*                monitoring_range_days = ...) over a storage that lacks at
\* most MaxNew of the images of the days in range.
\* The storage the loop is given: of the images of the days in range at most
\* n are not on disk.
LoopDisk(n) ==
    LET paths == {get_local_path(u.name, u.dir) :
                     u \in {construct_url(Datetime(dd, 0), ts) :
                              dd \in 1..Today, ts \in TimeSeqs}}
    IN  \E S \in SUBSET paths :
           /\ Cardinality(paths \ S) <= n
           /\ disk = [p \in S |-> 1]

LoopInit ==
    /\ is_running = FALSE
    /\ monitoring_range_days \in 1..MaxRange
    /\ total_checks = 0
    /\ checks_left = MaxChecks
    /\ new_images_found = 0
    /\ last_check_time = None
    /\ monitoring_thread = None
    /\ jobs = {}
    /\ other_jobs = {}
    /\ events = [t \in Threads |-> NotLogged]
    /\ due = {}
    /\ starts = 0
    /\ mpc = "idle"
    /\ spc = [t \in SchedThreads |-> "off"]
    /\ cpc = [t \in Threads |-> "none"]
    /\ cyc = [t \in Threads |-> NoCycle]
    /\ c_out = [t \in Threads |-> "none"]
    /\ last_set = None
    /\ last_call = NoCall
    /\ LoopDisk(MaxNew)

\* MonitoringLoop(...) over a storage that holds every image of the days in
\* range, driven by a client that only starts and stops it: one more cycle
\* may begin than in LoopInit.
SchedInit ==
    /\ is_running = FALSE
    /\ monitoring_range_days \in 1..MaxRange
    /\ total_checks = 0
    /\ checks_left = MaxChecks + 1
    /\ new_images_found = 0
    /\ last_check_time = None
    /\ monitoring_thread = None
    /\ jobs = {}
    /\ other_jobs = {}
    /\ events = [t \in Threads |-> NotLogged]
    /\ due = {}
    /\ starts = 0
    /\ mpc = "idle"
    /\ spc = [t \in SchedThreads |-> "off"]
    /\ cpc = [t \in Threads |-> "none"]
    /\ cyc = [t \in Threads |-> NoCycle]
    /\ c_out = [t \in Threads |-> "none"]
    /\ last_set = None
    /\ last_call = NoCall
    /\ disk = [p \in {get_local_path(u.name, u.dir) :
                        u \in {construct_url(Datetime(dd, 0), ts) :
                                 dd \in 1..Today, ts \in TimeSeqs}} |-> 1]

\* events[t] with more entries, where the log is kept.
logged_events(t, more) == IF events[t] # NotLogged THEN [events EXCEPT ![t] = @ \o more] ELSE events

\* events[t] begun anew.
begun_events(t, first) == IF events[t] # NotLogged THEN [events EXCEPT ![t] = first] ELSE events

\* _check_for_new_images, lines 91-97: the check is counted and on_check_start
\* is called, outside the try block: what it raises leaves the call.
check_begin(t, caller, job) ==
    /\ checks_left > 0
    /\ checks_left' = checks_left - 1
    /\ total_checks' = total_checks + 1
    /\ \E raises \in BOOLEAN :
         /\ events' = begun_events(t,
                         <<Event("total_checks", total_checks + 1), Event("on_check_start", 0)>>
                         \o (IF raises THEN <<Event("exception", 0)>> ELSE <<>>))
         /\ IF raises
            THEN /\ c_out' = [c_out EXCEPT ![t] = "raised"]
                 /\ cyc' = [cyc EXCEPT ![t] = NoCycle]
                 /\ UNCHANGED cpc
            ELSE /\ c_out' = [c_out EXCEPT ![t] = "running"]
                 /\ cpc' = [cpc EXCEPT ![t] = "try"]
                 /\ cyc' = [cyc EXCEPT ![t] = [NoCycle EXCEPT !.caller = caller,
                                                              !.job = job,
                                                              !.range_at_start = monitoring_range_days,
                                                              !.start = total_checks + 1]]

\* _check_for_new_images returns normally; schedule then sets the next run of
\* the job that called it.
check_return(t) ==
    /\ c_out' = [c_out EXCEPT ![t] = "returned"]
    /\ cpc' = [cpc EXCEPT ![t] = "none"]
    /\ cyc' = [cyc EXCEPT ![t] = NoCycle]
    /\ IF cyc[t].caller = "job"
       THEN /\ spc' = [spc EXCEPT ![t] = "poll"]
            /\ due' = due \ {cyc[t].job}
       ELSE UNCHANGED <<spc, due>>

new_images_found_set(new_urls) == Len(new_urls)

\* _check_for_new_images: self.new_images_found += len(new_urls)
new_images_found_added(new_urls) == new_images_found + Len(new_urls)

\* _check_for_new_images, lines 99-126 and 136-139: the URLs of the range are
\* generated and filtered against the disk; new URLs are counted and announced.
\* An exception of the generator, the storage or on_new_images_found is caught
\* and ends the cycle.
check_scan(t) ==
    /\ cpc[t] = "try"
    /\ LET days == monitoring_range_days
           recent == recent_urls(Today, days)
           new_urls == loop_filter_new_images(recent, disk)
           scanned == [cyc[t] EXCEPT !.range = days, !.recent = recent,
                                     !.urls = new_urls, !.idx = 1]
       IN  \/ /\ check_return(t)
              /\ events' = logged_events(t, <<Event("exception", 0)>>)
              /\ UNCHANGED new_images_found
           \/ /\ new_urls = <<>>
              /\ cpc' = [cpc EXCEPT ![t] = "download"]
              /\ cyc' = [cyc EXCEPT ![t] = scanned]
              /\ UNCHANGED <<new_images_found, c_out, spc, due, events>>
           \/ /\ new_urls # <<>>
              /\ new_images_found' = new_images_found_added(new_urls)
              /\ \/ /\ check_return(t)
                    /\ events' = logged_events(t, <<Event("on_new_images_found", Len(new_urls)),
                                                    Event("exception", 0)>>)
                 \/ /\ cpc' = [cpc EXCEPT ![t] = "download"]
                    /\ cyc' = [cyc EXCEPT ![t] = scanned]
                    /\ events' = logged_events(t, <<Event("on_new_images_found", Len(new_urls))>>)
                    /\ UNCHANGED <<c_out, spc, due>>
    /\ UNCHANGED <<is_running, monitoring_range_days, total_checks, checks_left, last_check_time,
                   monitoring_thread, jobs, other_jobs, starts, mpc>>
    /\ UNCHANGED <<fetchVars, dmVars, passVars, storeVars, uiVars, pureVars>>
    /\ UNCHANGED <<last_set, last_call>>

\* _download_new_images, lines 177-201: the next new URL becomes a task and
\* download_and_save is called; an exception before the call is logged and
\* the URL skipped.
check_download_next(t) ==
    /\ cpc[t] = "download"
    /\ dpc[t] = "idle"
    /\ cyc[t].idx <= Len(cyc[t].urls)
    /\ cyc' = [cyc EXCEPT ![t].idx = @ + 1]
    /\ LET url == cyc[t].urls[cyc[t].idx]
           meta == extract_metadata_from_url(url)
           filename == url.name
       IN  IF truthy(meta[1]) /\ truthy(meta[2])
           THEN \/ /\ download_and_save_begin(
                         t, DownloadTask(url, get_local_path(filename, meta[1][1].day)))
                   /\ events' = logged_events(t, <<Event("download", cyc[t].idx)>>)
                \/ UNCHANGED <<dmVars, events>>
           ELSE UNCHANGED <<dmVars, events>>
    /\ UNCHANGED <<is_running, monitoring_range_days, total_checks, checks_left, new_images_found,
                   last_check_time, monitoring_thread, jobs, other_jobs, due, starts, mpc, spc,
                   cpc, c_out>>
    /\ UNCHANGED <<fetchVars, passVars, storeVars, uiVars, pureVars>>
    /\ UNCHANGED <<last_set, last_call>>

check_start_time_later(c) == c.start + 1

\* _check_for_new_images, lines 91 and 128: check_start_time, taken when the
\* check began (checks are timed by their number)
check_start_time(c) == c.start

\* _check_for_new_images, lines 128-139: after the downloads last_check_time
\* is set and on_check_complete called; what it raises is caught.
check_finish(t) ==
    /\ cpc[t] = "download"
    /\ dpc[t] = "idle"
    /\ cyc[t].idx > Len(cyc[t].urls)
    /\ last_check_time' = Some(check_start_time(cyc[t]))
    /\ \E raises \in BOOLEAN :
         events' = logged_events(t, <<Event("last_check_time", check_start_time(cyc[t])),
                                      Event("on_check_complete", Len(cyc[t].urls))>>
                                    \o (IF raises THEN <<Event("exception", 0)>> ELSE <<>>))
    /\ check_return(t)
    /\ UNCHANGED <<is_running, monitoring_range_days, total_checks, checks_left, new_images_found,
                   monitoring_thread, jobs, other_jobs, starts, mpc>>
    /\ UNCHANGED <<fetchVars, dmVars, passVars, storeVars, uiVars, pureVars>>
    /\ UNCHANGED <<last_set, last_call>>

\* start_monitoring, line 52: if self.is_running
already_running == is_running

not_running_never == FALSE

\* stop_monitoring, line 71, and force_check, line 225: if not self.is_running
not_running == ~is_running

\* threading.Thread(target=self._run_scheduler): a thread that is not alive;
\* the second one is needed only while the first is still alive.
new_thread ==
    IF spc["worker"] = "off" THEN "worker"
    ELSE IF spc["worker2"] = "off" THEN "worker2" ELSE "none"

\* start_monitoring(): a running loop logs a warning and returns; otherwise
\* the job is scheduled, the scheduler thread started and the initial check
\* begun on the calling thread.
start_monitoring ==
    /\ mpc = "idle"
    /\ cpc["main"] = "none"
    /\ IF already_running
       THEN /\ last_call' = ApiCall("start_monitoring", 0, FALSE)
            /\ UNCHANGED <<is_running, starts, jobs, monitoring_thread, spc,
                           total_checks, checks_left, cpc, cyc, c_out, events>>
       ELSE /\ starts < MaxStarts
            /\ \E t \in SchedThreads :
                 /\ t = new_thread
                 /\ monitoring_thread' = Some(t)
                 /\ spc' = [spc EXCEPT ![t] = "poll"]
            /\ is_running' = TRUE
            /\ starts' = starts + 1
            /\ jobs' = jobs \cup {starts + 1}
            /\ check_begin("main", "start_monitoring", 0)
            /\ last_call' = ApiCall("start_monitoring", 0, c_out'["main"] = "raised")
    /\ UNCHANGED <<monitoring_range_days, new_images_found, last_check_time, due, mpc, other_jobs>>
    /\ UNCHANGED <<fetchVars, dmVars, passVars, storeVars, uiVars, pureVars>>
    /\ UNCHANGED last_set

\* stop_monitoring(): a stopped loop logs a warning and returns; otherwise,
\* lines 75-79, the flag is cleared, all jobs of the default scheduler are
\* removed and a live thread is joined.
stop_monitoring ==
    /\ mpc = "idle"
    /\ cpc["main"] = "none"
    /\ last_call' = ApiCall("stop_monitoring", 0, FALSE)
    /\ IF not_running
       THEN UNCHANGED <<is_running, jobs, other_jobs, due, mpc>>
       ELSE /\ is_running' = FALSE
            /\ jobs' = {}
            /\ other_jobs' = {}
            /\ due' = {}
            /\ mpc' = IF monitoring_thread # None /\ spc[monitoring_thread[1]] # "off"
                      THEN "joining" ELSE "idle"
    /\ UNCHANGED <<monitoring_range_days, total_checks, checks_left, new_images_found,
                   last_check_time, monitoring_thread, starts, spc, cpc, cyc, c_out, events>>
    /\ UNCHANGED <<fetchVars, dmVars, passVars, storeVars, uiVars, pureVars>>
    /\ UNCHANGED last_set

join_returns_at_once(t) == TRUE

\* join(timeout=5) returns: the thread has ended, or it is inside a job that
\* outlasts the timeout (a thread between two jobs ends within a second).
join_returns(t) == spc[t] \in {"off", "job"}

\* stop_monitoring, line 79: the join returns.
stop_join ==
    /\ mpc = "joining"
    /\ join_returns(monitoring_thread[1])
    /\ mpc' = "idle"
    /\ UNCHANGED <<is_running, monitoring_range_days, total_checks, checks_left, new_images_found,
                   last_check_time, monitoring_thread, jobs, other_jobs, due, starts, spc, cpc,
                   cyc, c_out, events>>
    /\ UNCHANGED <<fetchVars, dmVars, passVars, storeVars, uiVars, pureVars>>
    /\ UNCHANGED <<last_set, last_call>>

\* force_check(): a stopped loop logs a warning and returns; a running loop
\* runs a cycle on the calling thread.
force_check ==
    /\ mpc = "idle"
    /\ cpc["main"] = "none"
    /\ IF not_running
       THEN /\ last_call' = ApiCall("force_check", 0, FALSE)
            /\ UNCHANGED <<total_checks, checks_left, cpc, cyc, c_out, events>>
       ELSE /\ check_begin("main", "force_check", 0)
            /\ last_call' = ApiCall("force_check", 0, c_out'["main"] = "raised")
    /\ UNCHANGED <<is_running, monitoring_range_days, new_images_found,
                   last_check_time, monitoring_thread, jobs, other_jobs, due, starts, mpc, spc>>
    /\ UNCHANGED <<fetchVars, dmVars, passVars, storeVars, uiVars, pureVars>>
    /\ UNCHANGED last_set

\* set_monitoring_range(days): days < 1 raises ValueError and changes
\* nothing; otherwise the range is set.
range_rejected_never(days) == FALSE

\* set_monitoring_range, line 262: if days < 1
range_rejected(days) == days < 1

set_monitoring_range(days) ==
    /\ IF range_rejected(days)
       THEN /\ last_call' = ApiCall("set_monitoring_range", days, TRUE)
            /\ UNCHANGED <<monitoring_range_days, last_set>>
       ELSE /\ monitoring_range_days' = days
            /\ last_set' = Some(days)
            /\ last_call' = ApiCall("set_monitoring_range", days, FALSE)
    /\ UNCHANGED <<is_running, total_checks, checks_left, new_images_found, last_check_time,
                   monitoring_thread, jobs, other_jobs, due, starts, mpc, spc, cpc, cyc, c_out, events>>
    /\ UNCHANGED <<fetchVars, dmVars, passVars, storeVars, uiVars, pureVars>>

\* get_monitoring_range()
get_monitoring_range == monitoring_range_days

get_download_count_failed == Len(failed_tasks)

\* DownloadManager.get_download_count()
get_download_count == download_count

\* DownloadManager.get_failed_tasks(): a copy of the list
get_failed_tasks == failed_tasks

\* get_status()
get_status ==
    [is_running |-> is_running,
     check_interval_minutes |-> CheckInterval,
     monitoring_range_days |-> monitoring_range_days,
     total_checks |-> total_checks,
     last_check_time |-> last_check_time,
     new_images_found |-> new_images_found,
     total_downloads |-> get_download_count,
     failed_downloads |-> Len(get_failed_tasks)]

\* check_interval minutes have passed since a job was scheduled or last run.
interval_elapses ==
    /\ \E j \in jobs \ due : due' = due \cup {j}
    /\ UNCHANGED <<is_running, monitoring_range_days, total_checks, checks_left, new_images_found,
                   last_check_time, monitoring_thread, jobs, other_jobs, starts, mpc, spc, cpc,
                   cyc, c_out, events>>
    /\ UNCHANGED <<fetchVars, dmVars, passVars, storeVars, uiVars, pureVars>>
    /\ UNCHANGED <<last_set, last_call>>

\* _run_scheduler, lines 85-86: the thread of a running loop enters
\* run_pending, which picks a due job.
scheduler_poll(t) ==
    /\ spc[t] = "poll"
    /\ is_running
    /\ checks_left > 0
    /\ \E j \in due : cyc' = [cyc EXCEPT ![t] = [NoCycle EXCEPT !.job = j]]
    /\ spc' = [spc EXCEPT ![t] = "pending"]
    /\ UNCHANGED <<is_running, monitoring_range_days, total_checks, checks_left, new_images_found,
                   last_check_time, monitoring_thread, jobs, other_jobs, due, starts, mpc, cpc,
                   c_out, events>>
    /\ UNCHANGED <<fetchVars, dmVars, passVars, storeVars, uiVars, pureVars>>
    /\ UNCHANGED <<last_set, last_call>>

\* _run_scheduler, line 86: run_pending runs the job it picked; an exception
\* of the job leaves run_pending and ends the thread.
run_pending(t) ==
    /\ spc[t] = "pending"
    /\ check_begin(t, "job", cyc[t].job)
    /\ spc' = [spc EXCEPT ![t] = IF c_out'[t] = "raised" THEN "off" ELSE "job"]
    /\ UNCHANGED <<is_running, monitoring_range_days, new_images_found,
                   last_check_time, monitoring_thread, jobs, other_jobs, due, starts, mpc>>
    /\ UNCHANGED <<fetchVars, dmVars, passVars, storeVars, uiVars, pureVars>>
    /\ UNCHANGED <<last_set, last_call>>

\* _run_scheduler, line 85: the thread sees is_running cleared and ends.
scheduler_exit(t) ==
    /\ spc[t] = "poll"
    /\ ~is_running
    /\ spc' = [spc EXCEPT ![t] = "off"]
    /\ UNCHANGED <<is_running, monitoring_range_days, total_checks, checks_left, new_images_found,
                   last_check_time, monitoring_thread, jobs, other_jobs, due, starts, mpc, cpc,
                   cyc, c_out, events>>
    /\ UNCHANGED <<fetchVars, dmVars, passVars, storeVars, uiVars, pureVars>>
    /\ UNCHANGED <<last_set, last_call>>

\* StatusReporter.log_periodic_status(interval_minutes): log_status becomes
\* a job of the default scheduler.
log_periodic_status ==
    /\ mpc = "idle"
    /\ cpc["main"] = "none"
    /\ other_jobs' = other_jobs \cup {"log_status"}
    /\ UNCHANGED <<is_running, monitoring_range_days, total_checks, checks_left, new_images_found,
                   last_check_time, monitoring_thread, jobs, due, starts, mpc, spc, cpc,
                   cyc, c_out, events>>
    /\ UNCHANGED <<fetchVars, dmVars, passVars, storeVars, uiVars, pureVars>>
    /\ UNCHANGED <<last_set, last_call>>

LoopNext ==
    \/ start_monitoring
    \/ stop_monitoring
    \/ stop_join
    \/ force_check
    \/ \E days \in 0..MaxRange : set_monitoring_range(days)
    \/ interval_elapses
    \/ \E t \in SchedThreads : scheduler_poll(t) \/ run_pending(t) \/ scheduler_exit(t)
    \/ \E t \in Threads :
        \/ check_scan(t)
        \/ check_download_next(t)
        \/ check_finish(t)
        \/ download_and_save_fetch(t) /\ UNCHANGED <<fetchVars, passVars, loopVars, storeVars, uiVars, pureVars>>
        \/ download_and_save_save(t) /\ UNCHANGED <<fetchVars, passVars, loopVars, storeVars, uiVars, pureVars>>
        \/ download_and_save_validate(t) /\ UNCHANGED <<fetchVars, passVars, loopVars, storeVars, uiVars, pureVars>>

\* The cycles of the calling thread, begun by start_monitoring and
\* force_check, over a storage configured with any pattern.
CycleNext ==
    \/ start_monitoring
    \/ force_check
    \/ \E t \in {"main"} :
        \/ check_scan(t)
        \/ check_download_next(t)
        \/ check_finish(t)
        \/ download_and_save_fetch(t) /\ UNCHANGED <<fetchVars, passVars, loopVars, storeVars, uiVars, pureVars>>
        \/ download_and_save_save(t) /\ UNCHANGED <<fetchVars, passVars, loopVars, storeVars, uiVars, pureVars>>
        \/ download_and_save_validate(t) /\ UNCHANGED <<fetchVars, passVars, loopVars, storeVars, uiVars, pureVars>>

\* The loop under a client that starts and stops it.
SchedNext ==
    \/ start_monitoring
    \/ stop_monitoring
    \/ stop_join
    \/ interval_elapses
    \/ \E t \in SchedThreads : scheduler_poll(t) \/ run_pending(t) \/ scheduler_exit(t)
    \/ \E t \in Threads : check_scan(t) \/ check_finish(t)

\* A MonitoringLoop and a StatusReporter on the default scheduler.
JobsNext ==
    \/ start_monitoring
    \/ stop_monitoring
    \/ stop_join
    \/ log_periodic_status
    \/ interval_elapses
    \/ \E t \in SchedThreads : scheduler_poll(t) \/ run_pending(t) \/ scheduler_exit(t)
    \/ \E t \in Threads : check_scan(t) \/ check_finish(t)

LoopSpecInit == FetchIdle /\ DMInit /\ ~logged /\ PassIdle /\ LoopInit /\ StoreIdle /\ UiIdle /\ UrlIdle /\ RestIdle

\* A MonitoringLoop, the thread that drives it and its scheduler threads.
SpecLoop == LoopSpecInit /\ [][LoopNext]_vars

\* The steps of the cycle thread t is in, its download_and_save calls included.
cycle_step(t) ==
    \/ check_scan(t)
    \/ check_download_next(t)
    \/ check_finish(t)
    \/ download_and_save_fetch(t) /\ UNCHANGED <<fetchVars, passVars, loopVars, storeVars, uiVars, pureVars>>
    \/ download_and_save_save(t) /\ UNCHANGED <<fetchVars, passVars, loopVars, storeVars, uiVars, pureVars>>
    \/ download_and_save_validate(t) /\ UNCHANGED <<fetchVars, passVars, loopVars, storeVars, uiVars, pureVars>>

\* The same, with threads that keep running: a thread inside a cycle takes
\* its next step (every request has a timeout and a bounded number of retries).
SpecLoopFair == SpecLoop /\ \A t \in Threads : WF_vars(cycle_step(t))

\* ---------------------------------------------------------- specifications

StoreSpecInit == FetchIdle /\ DMInit /\ ~logged /\ PassIdle /\ LoopIdle /\ StoreInit /\ UiIdle /\ UrlIdle /\ RestIdle

\* A StorageOrganizer whose pattern is changed and whose directories are
\* listed and cleaned.
SpecStore == StoreSpecInit /\ [][StoreNext]_vars

\* An ImageFetcher and its caller.
FetchSpecInit == FetchInit /\ DMIdle /\ ~logged /\ PassIdle /\ LoopIdle /\ StoreIdle /\ UiIdle /\ UrlIdle /\ RestIdle

SpecFetch == FetchSpecInit /\ [][FetchNext]_vars

PassSpecInit == FetchIdle /\ DMInit /\ ~logged /\ PassInit /\ LoopIdle /\ StoreIdle /\ UiIdle /\ UrlIdle /\ RestIdle

\* A script discovers images, filters them and builds its tasks.
SpecPass == PassSpecInit /\ [][PassNext]_vars

PassDownloadSpecInit == FetchIdle /\ DMInit /\ ~logged /\ PassInit /\ LoopIdle /\ StoreIdle /\ UiIdle /\ UrlIdle /\ RestIdle

\* A script discovers images, filters them, builds its tasks and downloads.
SpecPassDownload == PassDownloadSpecInit /\ [][PassDownloadNext]_vars

DMSpecInit == FetchIdle /\ DMInit /\ logged /\ DiskInit /\ PassIdle /\ LoopIdle /\ StoreIdle /\ UiIdle /\ UrlIdle /\ RestIdle

Spec == DMSpecInit /\ [][DMNext]_vars

\* Two threads call download_and_save on one DownloadManager.
ConcNext ==
    \E t \in {"main", "worker"} :
        \/ client_download(t)
        \/ download_and_save_fetch(t) /\ UNCHANGED <<fetchVars, passVars, loopVars, storeVars, uiVars, pureVars>>
        \/ download_and_save_save(t) /\ UNCHANGED <<fetchVars, passVars, loopVars, storeVars, uiVars, pureVars>>
        \/ download_and_save_validate(t) /\ UNCHANGED <<fetchVars, passVars, loopVars, storeVars, uiVars, pureVars>>

SpecConc == DMSpecInit /\ [][ConcNext]_vars

CountSpecInit == FetchIdle /\ DMInit /\ logged /\ DiskInit /\ PassIdle /\ LoopIdle /\ StoreIdle /\ UiIdle /\ UrlIdle /\ RestIdle

SpecCount == CountSpecInit /\ [][CountNext]_vars

\* The web application or the desktop GUI over an empty data directory.
UiSpecInit ==
    FetchIdle /\ DMInit /\ ~logged /\ disk = <<>> /\ PassIdle /\ LoopIdle /\ UrlIdle
    /\ RestIdle /\ resolution = "1024" /\ solar_filter = "0211" /\ st_call = NoStoreCall /\ UiInit

SpecUi == UiSpecInit /\ [][UiNext]_vars

\* URLs built by construct_url and read back by extract_metadata_from_url.
UrlSpecInit ==
    FetchIdle /\ DMInit /\ ~logged /\ disk = <<>> /\ PassIdle /\ LoopIdle /\ StoreIdle
    /\ UiIdle /\ UrlIdle /\ RestIdle

SpecUrl == UrlSpecInit /\ [][UrlNext]_vars

SchedSpecInit ==
    FetchIdle /\ DMInit /\ ~logged /\ PassIdle /\ SchedInit /\ StoreIdle /\ UiIdle
    /\ UrlIdle /\ RestIdle

SpecSched == SchedSpecInit /\ [][SchedNext]_vars

JobsSpecInit == FetchIdle /\ DMInit /\ ~logged /\ PassIdle /\ SchedInit /\ StoreIdle /\ UiIdle /\ UrlIdle /\ RestIdle

\* The default scheduler shared by a MonitoringLoop and a StatusReporter.
SpecJobs == JobsSpecInit /\ [][JobsNext]_vars

\* StorageOrganizer(resolution=..., solar_filter=...): the pattern of the
\* generated URLs or another one.
StoreAnyPattern ==
    /\ \E pr \in Pairs \cup {<<RESOLUTION, INSTRUMENT_CODE>>} :
          resolution = pr[1] /\ solar_filter = pr[2]
    /\ st_call = NoStoreCall

CycleSpecInit ==
    FetchIdle /\ DMInit /\ ~logged /\ PassIdle /\ LoopInit /\ StoreAnyPattern /\ UiIdle
    /\ UrlIdle /\ RestIdle

SpecCycle == CycleSpecInit /\ [][CycleNext]_vars

\* The loop over a storage that lacks up to MaxMissing images.
OrderInit ==
    /\ is_running = FALSE
    /\ monitoring_range_days \in 1..MaxRange
    /\ total_checks = 0
    /\ checks_left = MaxChecks
    /\ new_images_found = 0
    /\ last_check_time = None
    /\ monitoring_thread = None
    /\ jobs = {}
    /\ other_jobs = {}
    /\ events = [t \in Threads |-> <<>>]
    /\ due = {}
    /\ starts = 0
    /\ mpc = "idle"
    /\ spc = [t \in SchedThreads |-> "off"]
    /\ cpc = [t \in Threads |-> "none"]
    /\ cyc = [t \in Threads |-> NoCycle]
    /\ c_out = [t \in Threads |-> "none"]
    /\ last_set = None
    /\ last_call = NoCall
    /\ LoopDisk(MaxMissing)

OrderSpecInit == FetchIdle /\ DMInit /\ ~logged /\ PassIdle /\ OrderInit /\ StoreIdle /\ UiIdle /\ UrlIdle /\ RestIdle

\* The cycles of the calling thread with several images to download.
SpecOrder == OrderSpecInit /\ [][CycleNext]_vars

\* save_image on any data directory.
SpecSave == StoreSpecInit /\ [][SaveNext]_vars

\* generate_date_range_urls called with any days and end_date.
GenSpecInit ==
    FetchIdle /\ DMInit /\ ~logged /\ disk = <<>> /\ PassIdle /\ LoopIdle /\ StoreIdle
    /\ UiIdle /\ UrlIdle /\ RestIdle

SpecGen == GenSpecInit /\ [][GenNext]_vars

\* scrape_directory on any page, and get_available_images_for_date_range on
\* any pair of datetimes, with the constructor's pattern.
ScrapeSpecInit ==
    FetchIdle /\ DMInit /\ ~logged /\ disk = <<>> /\ PassIdle /\ LoopIdle /\ StoreIdle
    /\ UiIdle /\ UrlIdle /\ RestIdle

SpecScrape == ScrapeSpecInit /\ [][ScrapeNext]_vars

ScrapeRangeSpecInit ==
    FetchIdle /\ DMInit /\ ~logged /\ disk = <<>> /\ PassIdle /\ LoopIdle /\ StoreIdle
    /\ UiIdle /\ UrlIdle /\ RestIdle

SpecScrapeRange == ScrapeRangeSpecInit /\ [][ScrapeRangeNext]_vars

\* ------------------------------------------------------------------ claims

\* C4: between any two consecutive HTTP requests issued through one
\* ImageFetcher at least rate_limit_delay seconds elapse.
C4_RateLimitBetweenRequests == nreq = 2 => last_gap >= rate_limit_delay

\* C5: a download_image call whose every response is a 404 issues exactly one
\* GET, sleeps no backoff, retries nothing and returns (False, None, message
\* mentioning 404).
C5_NotFoundIsTerminal ==
    (fop = "download_image" /\ gets >= 1 /\ only404) =>
        /\ fpc = "ret"
        /\ gets = 1
        /\ sleeps = <<>>
        /\ fres = [ok |-> FALSE, data |-> None, msg |-> Some("Image not found (404)")]

C5_Witness ==
    fop = "download_image" /\ fpc = "ret" /\ only404 /\ gets = 1 /\ max_retries > 1

\* C6: a download_image call with max_retries = N whose every response fails
\* transiently makes exactly N GET attempts and N-1 backoff sleeps, the sleep
\* after 0-based attempt k being min(2^k, 60), none after the last attempt,
\* and returns failure with the last attempt's error message.
C6_ExpectedSleeps == <<1, 2, 4, 8, 16, 32, 60, 60, 60>>

Last(l) == l[Len(l)]

SameTask(a, b) == a.url = b.url /\ a.target_path = b.target_path

C2_WrittenAtMostOnce == \A p \in DOMAIN writeCount : writeCount[p] <= 1

\* C9 as stated: filter_new_images returns exactly the tuples whose file is
\* missing, in their original order, omitting none and holding none twice, and
\* leaves storage alone.
Missing(tu) == <<tu[1], tu[2]>> \notin DOMAIN disk_before

Count(l, x) == Cardinality({i \in 1..Len(l) : l[i] = x})

C10_SavedAtTargetPath ==
    \A t \in Threads :
        (dpc[t] = "idle" /\ hist # <<>> /\ Last(hist).thread = t
         /\ Last(hist).ret = TRUE /\ Last(hist).fetches >= 1) =>
            /\ Last(hist).task.target_path \in DOMAIN disk
            /\ disk[Last(hist).task.target_path] = Last(hist).bytes


\* C3: two executions of _check_for_new_images of one MonitoringLoop never
\* overlap: no cycle starts, from the job, from start_monitoring or from
\* force_check, while another one is still running.
C3_CyclesNeverOverlap ==
    \A t1, t2 \in Threads : (cpc[t1] # "none" /\ cpc[t2] # "none") => t1 = t2

\* C7: _check_for_new_images never propagates an exception to its caller,
\* whatever fails inside the cycle.
C7_CycleNeverRaises == \A t \in Threads : c_out[t] # "raised"

\* C8: after set_monitoring_range(N) with N >= 1, get_monitoring_range()
\* returns N and a cycle that reads the range N generates candidate URLs for
\* exactly N distinct calendar days.
C8_CycleSpansRangeDays ==
    last_set # None =>
        /\ get_monitoring_range = last_set[1]
        /\ \A t \in Threads :
              (cpc[t] = "download" /\ cyc[t].range = last_set[1]) =>
                  Cardinality(DaysOf(cyc[t].recent)) = last_set[1]


\* The state of the loop and of its download manager, the record of calls apart.
loopState == <<is_running, monitoring_range_days, total_checks, new_images_found,
               last_check_time, monitoring_thread, jobs, due, starts, mpc, spc, cpc,
               cyc, c_out, dmVars>>

\* The step is a call of op.
Called(op) == last_call' # last_call /\ last_call'.op = op

\* C11: is_running becomes true only through start_monitoring and false only
\* through stop_monitoring; start_monitoring on a running loop schedules no
\* second job and starts no second thread; stop_monitoring or force_check on a
\* stopped loop runs no cycle and changes no loop state.
C11_TwoStates ==
    [][/\ (~is_running /\ is_running') => start_monitoring
       /\ (is_running /\ ~is_running') => stop_monitoring
       /\ (Called("start_monitoring") /\ is_running) =>
              UNCHANGED <<jobs, spc, monitoring_thread, loopState>>
       /\ ((Called("stop_monitoring") \/ Called("force_check")) /\ ~is_running) =>
              UNCHANGED loopState]_vars

C11_Witness ==
    /\ is_running
    /\ last_call.op = "start_monitoring"
    /\ last_call.running
    /\ Cardinality(jobs) = 1


C13_RangeAtLeastOne ==
    /\ [][Called("set_monitoring_range") =>
            IF last_call'.arg < 1
            THEN last_call'.raised /\ UNCHANGED monitoring_range_days
            ELSE /\ ~last_call'.raised
                 /\ get_monitoring_range' = last_call'.arg
                 /\ get_status'.monitoring_range_days = last_call'.arg]_vars
    /\ [](monitoring_range_days >= 1)

C13_Witness ==
    /\ last_call.op = "set_monitoring_range"
    /\ last_call.arg = 0
    /\ last_call.raised
    /\ monitoring_range_days = MaxRange

\* C14: get_status() returns a mapping with exactly the eight keys of the
\* status contract, total_downloads being the download manager's count of
\* downloads and failed_downloads the length of its failed-task list.
C14_StatusShape ==
    /\ DOMAIN get_status = {"is_running", "check_interval_minutes",
                            "monitoring_range_days", "total_checks",
                            "last_check_time", "new_images_found",
                            "total_downloads", "failed_downloads"}
    /\ get_status.total_downloads = download_count
    /\ get_status.failed_downloads = Len(failed_tasks)

C14_Witness ==
    /\ get_status.total_downloads = 1
    /\ get_status.failed_downloads = 1
    /\ get_status.total_checks = 2


\* The files of a date directory whose names carry the pair (res, flt).
OfPair(d, date, res, flt) ==
    {p \in DOMAIN d : p[1] = date /\ p[2].res = res /\ p[2].flt = flt}

\* C15: cleanup_corrupted_files(date) deletes exactly the zero-byte files of
\* the date directory that match the active pattern and returns their number;
\* the non-zero matching files and every file that does not match, zero-byte
\* or not, are left untouched; a missing directory returns 0.
C15_CleanupRemovesZeroByteMatches ==
    st_call.op = "cleanup_corrupted_files" =>
        LET before == st_call.before
            zero == {p \in OfPair(before, st_call.date, resolution, solar_filter) :
                        before[p] = 0}
        IN  /\ st_call.ret = Cardinality(zero)
            /\ DOMAIN disk = DOMAIN before \ zero
            /\ \A p \in DOMAIN disk : disk[p] = before[p]
            /\ ({p \in DOMAIN before : p[1] = st_call.date} = {}) => st_call.ret = 0

C15_Witness ==
    /\ st_call.op = "cleanup_corrupted_files"
    /\ st_call.ret = 1
    /\ \E p \in OfPair(disk, st_call.date, resolution, solar_filter) : disk[p] = 1
    /\ \E p \in DOMAIN disk :
          /\ p[1] = st_call.date
          /\ p \notin OfPair(disk, st_call.date, resolution, solar_filter)
          /\ disk[p] = 0

\* C16: list_local_images(date) returns, sorted, exactly the files of the date
\* directory whose names match the configured resolution and filter; files of
\* another pair, such as the pair configured before update_file_pattern, are
\* not returned although they remain on disk and file_exists reports them.
C16_ListingFollowsPattern ==
    st_call.op = "list_local_images" =>
        LET ret == st_call.ret
            date == st_call.date
        IN  /\ \A i, j \in 1..Len(ret) : i < j => name_before(ret[i], ret[j])
            /\ {ret[i] : i \in 1..Len(ret)} =
                   {p[2] : p \in OfPair(disk, date, resolution, solar_filter)}
            /\ disk = st_call.before
            /\ \A p \in DOMAIN disk :
                  (p[1] = date /\ p \notin OfPair(disk, date, resolution, solar_filter)) =>
                      /\ \A i \in 1..Len(ret) : ret[i] # p[2]
                      /\ file_exists(disk, p[2], date)

C16_Witness ==
    /\ st_call.op = "list_local_images"
    /\ <<resolution, solar_filter>> = <<"2048", "0193">>
    /\ Len(st_call.ret) = 2
    /\ OfPair(disk, st_call.date, "1024", "0211") # {}

\* C17: no step of the download path (filter_new_images,
\* create_download_tasks, download_and_save) removes a file that is on disk,
\* changes its size or opens it for writing again: every file that exists
\* before a step is there after it with the same bytes and the same number of
\* writes.
C17_ExistingFilesUntouched ==
    [][\A p \in DOMAIN disk :
          /\ p \in DOMAIN disk'
          /\ disk'[p] = disk[p]
          /\ p \in DOMAIN writeCount => writeCount'[p] = writeCount[p]]_vars

\* C18: every task that a download_and_save call left in status FAILED,
\* whatever the cause, is in the manager's failed-task list (no
\* reset_counters call intervenes), so get_failed_tasks() holds it and
\* get_status()['failed_downloads'] counts it.
C18_FailedTasksRetained ==
    \A i \in 1..Len(hist) :
        hist[i].task.status = "failed" =>
            /\ hist[i].task \in Range(get_failed_tasks)
            /\ get_status.failed_downloads >= 1

\* C19: after every interface operation that changes the resolution or filter
\* setting (on_filter_change, apply_custom_keywords, download-all-filters,
\* download_images, load_images_for_date_range, create_video) the scraper's
\* (resolution, solar_filter), which file_pattern is compiled from, and the
\* storage's (resolution, solar_filter) are the same pair.
SettingOps ==
    {"on_filter_change", "apply_custom_keywords", "download_all_filters",
     "download_images", "load_images_for_date_range", "create_video"}

C19_ScraperAndStorageAgree ==
    (ui_call.op \in SettingOps /\ wpc = "idle") =>
        <<scraper_resolution, scraper_filter>> = <<resolution, solar_filter>>

C21_RangeIsInclusive ==
    (gpc = "ret" /\ g_days >= 1) =>
        /\ Len(time_patterns) = 360
        /\ Len(g_urls) = g_days * 360
        /\ \A k \in 0..(g_days - 1) : \A i \in 1..360 :
              g_urls[k * 360 + i] =
                  construct_url(Datetime(g_end.day - (g_days - 1) + k, g_end.tod),
                                time_patterns[i])
        /\ DaysOf(g_urls) = (g_end.day - (g_days - 1))..g_end.day

C21_Witness ==
    /\ gpc = "ret"
    /\ g_days = 3
    /\ g_end.tod > 0
    /\ DaysOf(g_urls) = {g_end.day - 2, g_end.day - 1, g_end.day}

\* C22: after save_image(data, filename, date) the file is at
\* get_local_path(filename, date) = get_date_path(date)/filename,
\* file_exists(filename, date) is true, get_file_size(filename, date) is
\* len(data), and validate_file_integrity(filename, date, n) is true exactly
\* when n = len(data).
C22_SavedFileIsFound ==
    st_call.op = "save_image" =>
        LET filename == st_call.ret.filename
            date == st_call.date
        IN  /\ st_call.ret.path = get_local_path(filename, date)
            /\ get_local_path(filename, date) = <<get_date_path(date), filename>>
            /\ st_call.ret.path \in DOMAIN disk
            /\ file_exists(disk, filename, date)
            /\ get_file_size(disk, filename, date) = Some(st_call.ret.len)
            /\ \A n \in 0..(MaxBytes + 1) :
                  validate_file_integrity(disk, filename, date, n) <=> n = st_call.ret.len

C22_Witness ==
    /\ st_call.op = "save_image"
    /\ st_call.ret.len = 1
    /\ st_call.ret.path \in DOMAIN st_call.before
    /\ st_call.before[st_call.ret.path] = 0
    /\ validate_file_integrity(disk, st_call.ret.filename, st_call.date, 1)

\* C23: after any sequence of start_monitoring and stop_monitoring calls,
\* also when a stop's join timed out on a cycle in flight and a start
\* followed, at most one live thread runs the loop's _run_scheduler: no two
\* threads are polling the schedule, even leaving aside a thread whose job is
\* still in flight.
C23_OneSchedulerThread ==
    Cardinality({t \in SchedThreads : spc[t] \in {"poll", "pending"}}) <= 1

\* C24: every execution of _check_for_new_images, and so every call of
\* on_check_start, on_new_images_found and on_check_complete, happens on a
\* scheduler thread: the thread that calls start_monitoring or force_check
\* never begins a check, is never inside one and never leaves one.
C24_ChecksOnSchedulerThread ==
    \A t \in Threads \ SchedThreads : cpc[t] = "none" /\ c_out[t] = "none"

\* C25: while the loop is running, a scheduled cycle that failed, also by an
\* exception that left _check_for_new_images, has not stopped the scheduler:
\* the thread start_monitoring started is still alive.
C25_FailedCycleKeepsScheduler ==
    \A t \in SchedThreads :
        (is_running /\ monitoring_thread = Some(t) /\ c_out[t] = "raised")
            => spc[t] # "off"

\* C26: a set_monitoring_range call made while a cycle is in progress does
\* not change the days the cycle processes: the cycle generates the URLs of
\* the range that was configured when it began.
C26_RangeFixedForCycle ==
    \A t \in Threads :
        cpc[t] = "download" =>
            /\ cyc[t].range = cyc[t].range_at_start
            /\ cyc[t].recent = recent_urls(Today, cyc[t].range_at_start)

\* The (date, filename) tuples of the scrapes made, in the order made.
RECURSIVE FlattenDays(_)
FlattenDays(log) ==
    IF log = <<>> THEN <<>>
    ELSE [i \in DOMAIN Head(log).files |-> <<Head(log).date, Head(log).files[i]>>]
             \o FlattenDays(Tail(log))

\* The file names of the page that file_pattern matches, in an href or in
\* the text.
matching_names(page, res, flt) ==
    {page[i].name : i \in {k \in DOMAIN page : file_pattern_matches(page[k].name, res, flt)}}

\* C27: on a 200 response scrape_directory returns every file name of the
\* page that the pattern matches, each exactly once, also when several
\* anchors link the same file, in ascending order.
C27_EachFileOnceAscending ==
    \A k \in DOMAIN sc_log :
        sc_log[k].resp.status = "200" =>
            LET files == sc_log[k].files
            IN  /\ {files[i] : i \in DOMAIN files}
                      = matching_names(sc_log[k].resp.page, scraper_resolution, scraper_filter)
                /\ \A i, j \in DOMAIN files : i < j => name_before(files[i], files[j])

C29_InvalidDateFailsAtOnce ==
    [][\A i \in DOMAIN hist' \ DOMAIN hist :
          ~ValidDate(task_date(hist'[i].task)) =>
              /\ hist'[i].ret = FALSE
              /\ hist'[i].task.status = "failed"
              /\ hist'[i].task.error_message = Some("Could not parse date from filename")
              /\ hist'[i].fetches = 0
              /\ UNCHANGED <<disk, download_count, fetchCount, writeCount>>]_vars

C29_Witness ==
    /\ Len(hist) = 2
    /\ hist[1].ret = TRUE /\ hist[1].fetches = 1
    /\ ~ValidDate(task_date(hist[2].task))
    /\ hist[2].ret = FALSE /\ hist[2].fetches = 0
    /\ download_count = 1

\* C30: when the size on disk differs from the size of the bytes saved as
\* download_and_save validates them, the call returns False and leaves the
\* task FAILED with the integrity message, download_count as it was and the
\* file on disk as it stands.
C30_IntegrityFailureKeepsFile ==
    [][\A t \in Threads :
          (/\ dpc[t] = "validate"
           /\ dpc'[t] = "idle"
           /\ get_file_size(disk, task_filename(dtask[t]), task_date(dtask[t]))
                  # Some(ddata[t])) =>
              /\ Len(hist') = Len(hist) + 1
              /\ hist'[Len(hist')].thread = t
              /\ hist'[Len(hist')].ret = FALSE
              /\ hist'[Len(hist')].task.status = "failed"
              /\ hist'[Len(hist')].task.error_message = Some("File integrity check failed")
              /\ download_count' = download_count
              /\ disk' = disk
              /\ file_exists(disk', task_filename(dtask[t]), task_date(dtask[t]))]_vars

C30_Witness ==
    \E i \in DOMAIN hist :
        /\ hist[i].task.error_message = Some("File integrity check failed")
        /\ hist[i].ret = FALSE
        /\ hist[i].bytes = 1
        /\ file_exists(disk, task_filename(hist[i].task), task_date(hist[i].task))
        /\ download_count = 0

\* C31: a download_image call makes at most max_retries GET attempts and has
\* returned once it made them all; an attempt answered 200 ends the call at
\* once with (True, bytes, None), and one that raised an unexpected exception
\* ends it at once with failure: no request and no backoff sleep follows.
C31_EndsAtOnce ==
    (fop = "download_image" /\ gets >= 1) =>
        /\ gets <= max_retries
        /\ gets = max_retries => fpc = "ret"
        /\ last_resp = "200" =>
              /\ fpc = "ret"
              /\ fres.ok /\ fres.data # None /\ fres.msg = None
              /\ Len(sleeps) = gets - 1
        /\ last_resp = "Exception" =>
              /\ fpc = "ret"
              /\ ~fres.ok /\ fres.data = None
              /\ fres.msg = Some("Unexpected error downloading")
              /\ Len(sleeps) = gets - 1

C31_Witness ==
    /\ fop = "download_image" /\ fpc = "ret"
    /\ last_resp = "Exception"
    /\ gets = 2 /\ max_retries = 3 /\ sleeps = <<1>>

\* C32: the URLs a monitoring cycle counts as new and goes on to download
\* are those of its candidates whose file was absent from disk when the cycle
\* filtered them, and a task is built, and so a request issued, only for the
\* next of these URLs.
C32_OnlyAbsentFilesDownloaded ==
    [][\A t \in Threads :
          /\ (cpc[t] = "try" /\ cpc'[t] = "download") =>
                /\ \A i \in DOMAIN cyc'[t].urls :
                      /\ cyc'[t].urls[i] \in Range(cyc'[t].recent)
                      /\ get_local_path(cyc'[t].urls[i].name, cyc'[t].urls[i].dir)
                             \notin DOMAIN disk
                /\ new_images_found' - new_images_found = Len(cyc'[t].urls)
          /\ (cpc[t] # "none" /\ dtask'[t] # dtask[t] /\ dtask'[t] # NoTask) =>
                /\ cpc[t] = "download"
                /\ dtask'[t].url = cyc[t].urls[cyc[t].idx]
                /\ dtask'[t].target_path = get_local_path(dtask'[t].url.name, dtask'[t].url.dir)]_vars

C32_Witness ==
    \E t \in Threads :
        /\ cpc[t] = "download"
        /\ dpc[t] = "fetch"
        /\ Len(cyc[t].urls) = 1
        /\ Len(cyc[t].recent) > 1
        /\ dtask[t].url = cyc[t].urls[1]

\* C33: the candidates of a monitoring cycle are the URLs generate_daily_urls
\* yields for the days of the range, every URL the cycle goes on to download
\* is one of them, and each names a 4096 / 0211 image, whatever resolution
\* and filter the storage is configured with; no DirectoryScraper call is
\* made.
C33_GeneratedUrlsOnly ==
    /\ ScrapeIdle
    /\ \A t \in Threads :
          /\ cpc[t] = "download" =>
                /\ cyc[t].recent = recent_urls(Today, cyc[t].range)
                /\ \A i \in DOMAIN cyc[t].recent :
                      /\ cyc[t].recent[i].name.res = "4096"
                      /\ cyc[t].recent[i].name.flt = "0211"
                /\ \A i \in DOMAIN cyc[t].urls : cyc[t].urls[i] \in Range(cyc[t].recent)
          /\ (cpc[t] = "download" /\ dtask[t] # NoTask) =>
                /\ dtask[t].url \in Range(cyc[t].urls)
                /\ dtask[t].url.name.res = "4096"
                /\ dtask[t].url.name.flt = "0211"

C33_Witness ==
    /\ cpc["main"] = "download"
    /\ dpc["main"] = "save"
    /\ resolution = "2048"
    /\ solar_filter = "0193"
    /\ dtask["main"].url.name.res = "4096"
    /\ dtask["main"].url.name.flt = "0211"

\* The calls logged that fetched, saved and validated a file.
Validated == {i \in DOMAIN hist : hist[i].ret /\ hist[i].fetches = 1 /\ hist[i].bytes > 0}

\* C34: a download_and_save call that fetched, saved and validated a file
\* adds exactly 1 to download_count; a call that found the file on disk and
\* a call that failed leave it unchanged; so get_download_count() is the
\* number of files written and validated since construction or the last
\* reset_counters.
C34_CountsValidatedFiles ==
    /\ [](get_download_count = Cardinality(Validated))
    /\ [][\A i \in DOMAIN hist' \ DOMAIN hist :
             download_count' - download_count
                 = IF hist'[i].ret /\ hist'[i].fetches = 1 THEN 1 ELSE 0]_vars

C34_Witness ==
    /\ Len(hist) = 2
    /\ hist[1].ret /\ hist[1].fetches = 1
    /\ hist[2].ret /\ hist[2].fetches = 0
    /\ SameTask(hist[1].task, hist[2].task)
    /\ download_count = 1
    /\ writeCount # <<>>

\* C35: download_and_save marks the task DOWNLOADING first, and on return the
\* task is COMPLETED or FAILED; the call returns True exactly when the task
\* is COMPLETED, and a FAILED task carries a non-empty error_message.
C35_StatusOnReturn ==
    /\ \A t \in Threads : dpc[t] # "idle" => dtask[t].status = "downloading"
    /\ \A i \in DOMAIN hist :
         /\ hist[i].task.status \in {"completed", "failed"}
         /\ hist[i].ret <=> hist[i].task.status = "completed"
         /\ hist[i].task.status = "failed" =>
                hist[i].task.error_message \notin {None, Some("")}

C35_Witness ==
    /\ Len(hist) = 2
    /\ hist[1].task.status = "failed" /\ ~hist[1].ret
    /\ hist[1].task.error_message = Some("Download failed")
    /\ hist[2].task.status = "completed" /\ hist[2].ret /\ hist[2].fetches = 1

\* C37: a 200 response with an empty body is a failed download for
\* download_and_save (FAILED, 'Download failed', the task appended to
\* failed_tasks), and so no step of download_and_save leaves a zero-length
\* file on disk.
C37_NoZeroLengthFile ==
    [][/\ \A t \in Threads :
             (dpc[t] = "fetch" /\ dpc'[t] = "save") => ddata'[t] > 0
       /\ \A t \in Threads :
             (dpc[t] = "fetch" /\ dpc'[t] = "idle") =>
                 /\ Len(failed_tasks') = Len(failed_tasks) + 1
                 /\ failed_tasks'[Len(failed_tasks')].status = "failed"
                 /\ failed_tasks'[Len(failed_tasks')].error_message # None
       /\ \A p \in DOMAIN disk' :
             (p \notin DOMAIN disk \/ disk'[p] # disk[p]) => disk'[p] > 0]_vars

\* C38: after a pass scrape, filter_new_images, create_download_tasks,
\* download_and_save in which every download_and_save returned True,
\* filter_new_images on the same available list returns the empty list.
C38_SecondPassEmpty ==
    (ppc = "tasks" /\ dpc["main"] = "idle" /\ successful = Len(tasks) /\ failed = 0)
        => filter_new_images(available_images, disk) = <<>>

\* C39: stop_monitoring removes only the job its own loop scheduled; the jobs
\* others registered with the default scheduler (another MonitoringLoop,
\* StatusReporter.log_periodic_status) stay scheduled.
C39_OtherJobsStay == [][other_jobs \subseteq other_jobs']_vars

\* The log ev of a check is in the order of _check_for_new_images: the count,
\* on_check_start, on_new_images_found if URLs are new, the downloads by
\* rising index, last_check_time with the check's own number, then
\* on_check_complete; an exception ends the log.
CycleOrdered(ev) ==
    LET rank(e) == CASE e = "total_checks" -> 1
                     [] e = "on_check_start" -> 2
                     [] e = "on_new_images_found" -> 3
                     [] e = "download" -> 4
                     [] e = "last_check_time" -> 5
                     [] e = "on_check_complete" -> 6
                     [] e = "exception" -> 7
    IN  /\ \A j, k \in DOMAIN ev :
              j < k => \/ rank(ev[j].e) < rank(ev[k].e)
                       \/ ev[j].e = "download" /\ ev[k].e = "download" /\ ev[j].i < ev[k].i
        /\ ev # <<>> => ev[1].e = "total_checks"
        /\ Len(ev) >= 2 => ev[2].e = "on_check_start"
        /\ \A k \in DOMAIN ev :
              /\ ev[k].e = "on_new_images_found" => ev[k].i > 0
              /\ ev[k].e = "download" =>
                    \E j \in 1..(k - 1) : ev[j].e = "on_new_images_found" /\ ev[k].i <= ev[j].i
              /\ ev[k].e = "last_check_time" => ev[k].i = ev[1].i
              /\ ev[k].e = "on_check_complete" => (k > 1 /\ ev[k - 1].e = "last_check_time")

C36_CountersGrow ==
    /\ [](get_status.total_downloads + get_status.failed_downloads
             <= get_status.new_images_found)
    /\ [][/\ total_checks' >= total_checks
          /\ new_images_found' >= new_images_found
          /\ download_count' >= download_count
          /\ Len(failed_tasks') >= Len(failed_tasks)]_vars

C36_Witness ==
    /\ total_checks = 2
    /\ new_images_found = 2
    /\ get_status.total_downloads = 1
    /\ get_status.failed_downloads = 1
    /\ \A t \in Threads : cpc[t] = "none"

====
